---- MODULE Spec2Model ----
(***************************************************************************)
(* Model of the sessionlibrary monorepo (nestjs-audit-session,             *)
(* nestjs-session-log, nestjs-session-sniffer).                            *)
(*                                                                         *)
(* Part 1 (specification Spec): the attribution context.  Units of work    *)
(* open a continuation-local context (ClsService.run), set 'userId' in it  *)
(* and perform entity writes; the TypeORM subscriber AuditSubscriber       *)
(* stamps createdBy / updatedBy from the context that is active for the    *)
(* calling continuation.                                                   *)
(*                                                                         *)
(* Part 2 (specification SpecLog): the activity-log pipeline.  The         *)
(* interceptors (ActivityLogInterceptor, SessionSnifferService) build an   *)
(* ActivityLogPayload in the tap() of the handler's result stream, emit it *)
(* on the EventEmitter2 bus or publish it to Redis, and InsertLogSniffer   *)
(* writes it to the primary store and to Elasticsearch.  SpecLogFair is    *)
(* the broadcast path (LogRedisService) with fair message delivery,        *)
(* SpecIndex the sink over a UTC midnight, and SpecScope the sink's scoped *)
(* write running beside units of work and their run-as scopes.             *)
(***************************************************************************)
EXTENDS Integers, Sequences, FiniteSets, TLC

VARIABLES
    \* ---- attribution context (nestjs-cls over AsyncLocalStorage) ----
    clsStore,   \* context id -> value of the key 'userId' in that context
    als,        \* unit -> chain of the contexts active for its continuations
    pc,         \* unit -> "new" | "handler" | "background" | "done"
    reqUser,    \* unit -> what getUserIdFromRequest(req) returned
    lastHook,   \* the AuditSubscriber hook invocation of the step just taken
    scoped,     \* unit -> the sink's scoped write that was started from it
    lastExit,   \* the return of a cls.run to its caller in the step just taken
    \* ---- activity-log pipeline ----
    cfg,        \* what the instance was configured with (redis, elastic)
    now,        \* performance.now(), in ms
    wall,       \* the system clock (new Date()), in seconds since the epoch
    lpc,        \* logged unit -> "new" | "open" | "done"
    lreq,       \* logged unit -> the request: method and req.user?.id
    start,      \* logged unit -> performance.now() taken by intercept
    handler,    \* logged unit -> what the wrapped operation's stream did
    response,   \* logged unit -> what the caller of the unit observed
    bus,        \* events emitted on the local EventEmitter2, in order
    sink,       \* per emitted event, the progress of InsertLogSniffer on it
    pub,        \* calls of LogRedisService.publishEvent, in order
    channel,    \* messages the broker holds for this instance's subscriber
    peerChannel, \* messages the broker holds for a peer instance's subscriber
    peerBus,    \* events emitted on the peer's EventEmitter2, in order
    db,         \* rows of the primary store (activity_logs)
    es,         \* documents of the secondary index
    conn,       \* Redis connection -> its state and reconnect attempts
    peerSink,   \* per event on the peer's bus, the progress of its InsertLogSniffer
    app,        \* the Nest application: its lifecycle state and startup error
    options     \* the LogModuleOptions given to LogModule.forRoot

clsVars == <<clsStore, als, pc, reqUser, lastHook, scoped, lastExit>>

logVars == <<cfg, now, wall, lpc, lreq, start, handler, response, bus, sink, pub,
             channel, peerChannel, peerBus, db, es, conn, peerSink, app,
             options>>

vars == <<clsVars, logVars>>

-----------------------------------------------------------------------------
(* Bounds *)

\* Number of units of work that may overlap in time.
NumUnits == 2

Units == 1..NumUnits

\* Number of units of work passing through the activity-log interceptor.
NumLogUnits == 1

LogUnits == 1..NumLogUnits

\* Values the wrapped operation's result stream may emit.
MaxValues == 2

\* Events the interceptor may build in all.
MaxEvents == 1

\* Positions in the logs of emitted and of published events.
EventSlots == 1..MaxEvents

\* Events an instance builds in a row before any store has answered.
MaxBurst == MaxEvents + 1

BurstSlots == 1..MaxBurst

-----------------------------------------------------------------------------
(* JavaScript values *)

Undefined == "<undefined>"
Null == "<null>"
Free == "<no context>"

\* Actor ids a host's extractor can return; the empty string is a string too.
UserIds == {"", "A", "B"}

\* getUserIdFromRequest: (req) => string | undefined
ExtractorResults == UserIds \cup {Undefined}

\* Actor ids given to AuditService.runWithUser by background code.
RunAsUsers == {"A", "B"}

SYSTEM == "SYSTEM"

\* JavaScript truthiness of a value read from the context: `!userId` is true
\* for undefined, null and the empty string.
Truthy(v) == v \notin {Undefined, Null, ""}

\* The `??` operator: the right operand only for undefined and null.
NullishCoalesce(v, d) == IF v \in {Undefined, Null} THEN d ELSE v

-----------------------------------------------------------------------------
(* Records handed to the subscriber *)

\* An entity is a map from the properties it exposes to their values.  "Z" is
\* an attribution left by an earlier write; an entity class that does not
\* extend AuditedEntity may expose one of the two fields or neither.
Entities ==
    { [name |-> "n"],
      [name |-> "n", createdBy |-> "Z"],
      [name |-> "n", updatedBy |-> "Z"],
      [name |-> "n", createdBy |-> Null, updatedBy |-> Null],
      [name |-> "n", createdBy |-> "Z", updatedBy |-> "Z"] }

NoEntity == [name |-> "<none>"]

\* InsertEvent / UpdateEvent: event.entity may be undefined.
HookEvents ==
    { [hasEntity |-> TRUE, entity |-> e] : e \in Entities }
      \cup { [hasEntity |-> FALSE, entity |-> NoEntity] }

StampAlways(e, f, v) ==
    [x \in DOMAIN e \cup {f} |-> IF x = f THEN v ELSE e[x]]

\* `if ('f' in entity) entity.f = v`
StampIfExposed(e, f, v) == IF f \in DOMAIN e THEN [e EXCEPT ![f] = v] ELSE e

-----------------------------------------------------------------------------
(* ClsService *)

\* One context object per ClsService.run call; a unit has at most one live
\* context per nesting level, so (unit, level) names the object.
SharedCtxId(r, level) == 1

CtxId(r, level) == (r - 1) * 2 + level

\* The context object of the cls.run inside handleLogEvent, for the event
\* emitted from unit r.
SinkCtxId(r) == 2 * NumUnits + r

CtxIds == { CtxId(r, l) : r \in Units, l \in 1..2 } \cup { SinkCtxId(r) : r \in Units }

\* The context that is active for the continuations of unit r, if any.
Depth(r) == Len(als[r])

ActiveCtx(r) == als[r][Depth(r)].ctx

\* cls.get('userId'): undefined when no context is active.
ClsGet(r) == IF Depth(r) = 0 THEN Undefined ELSE clsStore[ActiveCtx(r)]

\* cls.run(() => { cls.set('userId', v); ... }): a new context becomes the
\* active one for the callback and everything it awaits.
ClsRunSet(r, v, by) ==
    LET c == CtxId(r, Depth(r) + 1) IN
    /\ clsStore' = [clsStore EXCEPT ![c] = v]
    /\ als' = [als EXCEPT ![r] = Append(@, [ctx |-> c, set |-> v, by |-> by])]

\* The callback of cls.run settled: the enclosing context is active again.
ClsExitLeaks(r) ==
    /\ clsStore' = [c \in CtxIds |->
                      IF c = ActiveCtx(r) THEN Free
                      ELSE IF Depth(r) > 1 /\ c = als[r][Depth(r) - 1].ctx
                           THEN clsStore[ActiveCtx(r)]
                           ELSE clsStore[c]]
    /\ als' = [als EXCEPT ![r] = SubSeq(@, 1, Depth(r) - 1)]

ClsExit(r) ==
    /\ clsStore' = [clsStore EXCEPT ![ActiveCtx(r)] = Free]
    /\ als' = [als EXCEPT ![r] = SubSeq(@, 1, Depth(r) - 1)]

\* How an async function ends: it returns a value or it throws an error.
FnOutcomes ==
    { [kind |-> "return", value |-> "result"], [kind |-> "throw", value |-> "error"] }

NoOutcome == [kind |-> "none", value |-> "none"]

RunWithUserSwallowsError(o) ==
    IF o.kind = "throw" THEN [kind |-> "return", value |-> "undefined"] ELSE o

\* `return await fn()` in the async callback of cls.run, whose promise
\* runWithUser returns: fulfilled with fn's value, rejected with fn's error.
RunWithUserSettles(o) ==
    IF o.kind = "throw"
    THEN [kind |-> "throw", value |-> o.value]
    ELSE [kind |-> "return", value |-> o.value]

\* What cls.get('userId') returns to the caller of a cls.run right after the
\* run returned, the caller being at nesting depth d again.
Exited(r, of, d) ==
    lastExit' = [unit |-> r, of |-> of, depth |-> d,
                 read |-> IF d = 0 THEN Undefined ELSE clsStore'[als[r][d].ctx],
                 fn |-> NoOutcome, got |-> NoOutcome]

\* The same for a runWithUser whose fn settled with outcome o: what the
\* caller's `await runWithUser(...)` gets is recorded with it.
ExitedWith(r, d, o) ==
    lastExit' = [unit |-> r, of |-> "runWithUser", depth |-> d,
                 read |-> IF d = 0 THEN Undefined ELSE clsStore'[als[r][d].ctx],
                 fn |-> o, got |-> RunWithUserSettles(o)]

-----------------------------------------------------------------------------
(* AuditSubscriber *)

BeforeInsertStrictUndefined(event, userId) ==
    IF userId = Undefined THEN event
    ELSE IF ~event.hasEntity THEN event
    ELSE [event EXCEPT !.entity =
            StampIfExposed(StampIfExposed(@, "createdBy", userId),
                           "updatedBy", userId)]

BeforeInsertCreatedOnly(event, userId) ==
    IF ~Truthy(userId) THEN event
    ELSE IF ~event.hasEntity THEN event
    ELSE [event EXCEPT !.entity = StampIfExposed(@, "createdBy", userId)]

\* beforeInsert, given the userId it read from the context.
BeforeInsert(event, userId) ==
    IF ~Truthy(userId) THEN event
    ELSE IF ~event.hasEntity THEN event
    ELSE [event EXCEPT !.entity =
            StampIfExposed(StampIfExposed(@, "createdBy", userId),
                           "updatedBy", userId)]

BeforeUpdateLikeInsert(event, userId) == BeforeInsert(event, userId)

\* beforeUpdate, given the userId it read from the context.
BeforeUpdate(event, userId) ==
    IF ~Truthy(userId) THEN event
    ELSE IF ~event.hasEntity THEN event
    ELSE [event EXCEPT !.entity = StampIfExposed(@, "updatedBy", userId)]

\* The whole body of each hook is inside try { } catch { log }: nothing the
\* body does reaches the caller as an exception.
HookRaises(op, event, userId) == FALSE

NoScopedWrite == [pc |-> "none", ctx |-> 0, userId |-> Undefined]

NoExit ==
    [unit |-> 0, of |-> "none", depth |-> 0, read |-> Undefined,
     fn |-> NoOutcome, got |-> NoOutcome]

NoHook ==
    [unit |-> 0, op |-> "none", read |-> Undefined, depth |-> 0,
     before |-> [hasEntity |-> FALSE, entity |-> NoEntity],
     after |-> [hasEntity |-> FALSE, entity |-> NoEntity],
     raised |-> FALSE]

-----------------------------------------------------------------------------
(* Units of work *)

\* The unit's code is executing (between its start and its completion).
Running(r) == pc[r] \in {"handler", "background"}

\* No run-as scope of the unit is open: the active context, if any, is the one
\* the interceptor opened.
AtUnitLevel(r) == Depth(r) = 0 \/ (Depth(r) = 1 /\ als[r][1].by = "intercept")

InitCls ==
    /\ clsStore = [c \in CtxIds |-> Free]
    /\ als = [r \in Units |-> <<>>]
    /\ pc = [r \in Units |-> "new"]
    /\ reqUser = [r \in Units |-> Undefined]
    /\ lastHook = NoHook
    /\ scoped = [r \in Units |-> NoScopedWrite]
    /\ lastExit = NoExit

InterceptOutsideRun(r) ==
    /\ pc[r] = "new"
    /\ \E u \in ExtractorResults : reqUser' = [reqUser EXCEPT ![r] = u]
    /\ pc' = [pc EXCEPT ![r] = "handler"]
    /\ lastHook' = NoHook
    /\ lastExit' = NoExit
    /\ UNCHANGED scoped
    /\ UNCHANGED <<clsStore, als>>
    /\ UNCHANGED logVars

\* ClsUserInterceptor.intercept: cls.run opens a new context, the callback sets
\* userId in it (the extractor's result, or null) and calls next.handle()
\* inside it, so the handler and all it awaits run with that context active.
Intercept(r) ==
    /\ pc[r] = "new"
    /\ \E u \in ExtractorResults :
         /\ reqUser' = [reqUser EXCEPT ![r] = u]
         /\ ClsRunSet(r, NullishCoalesce(u, Null), "intercept")
    /\ pc' = [pc EXCEPT ![r] = "handler"]
    /\ lastHook' = NoHook
    /\ lastExit' = NoExit
    /\ UNCHANGED scoped
    /\ UNCHANGED logVars

\* Background work (cron job, queue consumer) that starts outside any context.
StartBackground(r) ==
    /\ pc[r] = "new"
    /\ pc' = [pc EXCEPT ![r] = "background"]
    /\ lastHook' = NoHook
    /\ lastExit' = NoExit
    /\ UNCHANGED scoped
    /\ UNCHANGED <<clsStore, als, reqUser>>
    /\ UNCHANGED logVars

\* AuditService.runWithUser(userId, fn): fn starts inside a new context.
RunWithUser(r) ==
    /\ Running(r)
    /\ AtUnitLevel(r)
    /\ \E u \in RunAsUsers : ClsRunSet(r, u, "runWithUser")
    /\ lastHook' = NoHook
    /\ lastExit' = NoExit
    /\ UNCHANGED scoped
    /\ UNCHANGED <<pc, reqUser>>
    /\ UNCHANGED logVars

\* AuditService.runAsSystem(fn) == runWithUser('SYSTEM', fn)
RunAsSystem(r) ==
    /\ Running(r)
    /\ AtUnitLevel(r)
    /\ ClsRunSet(r, SYSTEM, "runWithUser")
    /\ lastHook' = NoHook
    /\ lastExit' = NoExit
    /\ UNCHANGED scoped
    /\ UNCHANGED <<pc, reqUser>>
    /\ UNCHANGED logVars

\* fn of runWithUser returned or threw: the run is left.
RunReturn(r) ==
    /\ Running(r)
    /\ Depth(r) > 0
    /\ als[r][Depth(r)].by = "runWithUser"
    /\ ClsExit(r)
    /\ Exited(r, "runWithUser", Depth(r) - 1)
    /\ lastHook' = NoHook
    /\ UNCHANGED scoped
    /\ UNCHANGED <<pc, reqUser>>
    /\ UNCHANGED logVars

\* The same step, with what fn did and what the caller of runWithUser gets.
RunSettles(r) ==
    /\ Running(r)
    /\ Depth(r) > 0
    /\ als[r][Depth(r)].by = "runWithUser"
    /\ ClsExit(r)
    /\ \E o \in FnOutcomes : ExitedWith(r, Depth(r) - 1, o)
    /\ lastHook' = NoHook
    /\ UNCHANGED scoped
    /\ UNCHANGED <<pc, reqUser>>
    /\ UNCHANGED logVars

Hooked(r, op, event, result) ==
    lastHook' = [unit |-> r, op |-> op, read |-> ClsGet(r), depth |-> Depth(r),
                 before |-> event, after |-> result,
                 raised |-> HookRaises(op, event, ClsGet(r))]

\* repository.save(entity) of a new entity: TypeORM calls beforeInsert in the
\* continuation of the unit that awaits the save.
SaveInsert(r) ==
    /\ Running(r)
    /\ \E event \in HookEvents :
         Hooked(r, "insert", event, BeforeInsert(event, ClsGet(r)))
    /\ lastExit' = NoExit
    /\ UNCHANGED <<clsStore, als, pc, reqUser, scoped>>
    /\ UNCHANGED logVars

\* repository.save(entity) of a loaded entity: TypeORM calls beforeUpdate.
SaveUpdate(r) ==
    /\ Running(r)
    /\ \E event \in HookEvents :
         Hooked(r, "update", event, BeforeUpdate(event, ClsGet(r)))
    /\ lastExit' = NoExit
    /\ UNCHANGED <<clsStore, als, pc, reqUser, scoped>>
    /\ UNCHANGED logVars

\* Places in the body of a hook where an exception can arise: nowhere, in
\* cls.get / cls.getId, in the assignment of createdBy, in the assignment of
\* updatedBy (a frozen entity, a throwing setter).
Faults == {"none", "get", "createdBy", "updatedBy"}

\* The body reaches the place and the exception arises there.
Thrown(op, event, userId, fault) ==
    CASE fault = "none" -> FALSE
      [] fault = "get" -> TRUE
      [] fault = "createdBy" ->
            /\ op = "insert" /\ Truthy(userId) /\ event.hasEntity
            /\ "createdBy" \in DOMAIN event.entity
      [] fault = "updatedBy" ->
            /\ Truthy(userId) /\ event.hasEntity
            /\ "updatedBy" \in DOMAIN event.entity

\* The event as the body leaves it when it stops at the fault.
StoppedAt(op, event, userId, fault) ==
    CASE fault = "updatedBy" /\ op = "insert" ->
            [event EXCEPT !.entity = StampIfExposed(@, "createdBy", userId)]
      [] OTHER -> event

HookExitRethrows(thrown) == IF thrown THEN "threw" ELSE "returned"

\* try { body } catch (error) { this.logger.error(...) }: the hook returns
\* whether or not the body threw.
HookExit(thrown) == "returned"

\* TypeORM runs the subscribers before the query and continues with the
\* query only when they returned.
Persisted(exit, event) ==
    IF exit = "returned" THEN [done |-> TRUE, event |-> event]
    ELSE [done |-> FALSE, event |-> event]

HookedWithFault(r, op, event, fault, normal) ==
    LET userId == IF fault = "get" THEN Undefined ELSE ClsGet(r)
        thrown == Thrown(op, event, userId, fault)
        result == IF thrown THEN StoppedAt(op, event, userId, fault) ELSE normal
    IN lastHook' = [unit |-> r, op |-> op, read |-> userId, depth |-> Depth(r),
                    before |-> event, after |-> result,
                    raised |-> HookExit(thrown) = "threw",
                    fault |-> fault, thrown |-> thrown,
                    write |-> Persisted(HookExit(thrown), result)]

\* repository.save(entity) of a new entity while something in the hook's
\* body can fail.
SaveInsertWithFault(r) ==
    /\ Running(r)
    /\ \E event \in HookEvents, fault \in Faults :
         HookedWithFault(r, "insert", event, fault, BeforeInsert(event, ClsGet(r)))
    /\ lastExit' = NoExit
    /\ UNCHANGED <<clsStore, als, pc, reqUser, scoped>>
    /\ UNCHANGED logVars

\* repository.save(entity) of a loaded entity, likewise.
SaveUpdateWithFault(r) ==
    /\ Running(r)
    /\ \E event \in HookEvents, fault \in Faults :
         HookedWithFault(r, "update", event, fault, BeforeUpdate(event, ClsGet(r)))
    /\ lastExit' = NoExit
    /\ UNCHANGED <<clsStore, als, pc, reqUser, scoped>>
    /\ UNCHANGED logVars

\* The handler's result stream completed (or the background work ended).
Complete(r) ==
    /\ Running(r)
    /\ AtUnitLevel(r)
    /\ pc' = [pc EXCEPT ![r] = "done"]
    /\ IF Depth(r) = 1 THEN ClsExit(r) ELSE UNCHANGED <<clsStore, als>>
    /\ reqUser' = [reqUser EXCEPT ![r] = Undefined]
    /\ lastHook' = NoHook
    /\ lastExit' = NoExit
    /\ UNCHANGED scoped
    /\ UNCHANGED logVars

NextCls ==
    \E r \in Units :
        \/ Intercept(r)
        \/ StartBackground(r)
        \/ RunWithUser(r)
        \/ RunAsSystem(r)
        \/ RunReturn(r)
        \/ SaveInsert(r)
        \/ SaveUpdate(r)
        \/ Complete(r)

-----------------------------------------------------------------------------
(* Date *)

SecondsPerDay == 86400

\* Instants the system clock passes through: one second before a UTC
\* midnight, one second after it, and one second later.
Midnight == 1 * SecondsPerDay

FirstInstant == Midnight - 1

WallInstants == {FirstInstant, Midnight + 1, Midnight + 2}

\* A zone ahead of UTC, for hosts whose local date differs from the UTC date.
LocalOffset == 8 * 3600

\* Date.prototype.toISOString(): 'YYYY-MM-DDTHH:mm:ssZ' in UTC, whatever the
\* host's zone; the parts before and after the 'T'.  The calendar is that of
\* the first month of the epoch.
ToISOString(t) ==
    LET day == t \div SecondsPerDay
        sec == t % SecondsPerDay
    IN [date |-> <<1970, 1, day + 1>>,
        time |-> <<sec \div 3600, (sec % 3600) \div 60, sec % 60>>]

\* iso.split('T')[0]
DatePart(iso) == iso.date

IndexNameLocalDate(t) == <<"activity-logs-", DatePart(ToISOString(t + LocalOffset))>>

\* `activity-logs-${new Date().toISOString().split('T')[0]}`
IndexName(t) == <<"activity-logs-", DatePart(ToISOString(t))>>

NoDest == <<>>

\* The system clock advances.
Tick ==
    /\ \E t \in WallInstants : t > wall /\ wall' = t
    /\ UNCHANGED <<clsVars, app, conn, peerSink, cfg, options, now, lpc, lreq, start, handler, response, bus, sink,
                   pub, channel, peerChannel, peerBus, db, es>>

-----------------------------------------------------------------------------
(* The Redis connections of LogRedisService *)

Connections == {"publisher", "subscriber"}

\* Reconnect attempts in a row that are followed.
MaxRetries == 42

RetryStep == 50

RetryCap == 2000

Min(a, b) == IF a <= b THEN a ELSE b

RetryStrategyUncapped(times) == times * RetryStep

\* retryStrategy: (times) => Math.min(times * 50, 2000)
RetryStrategy(times) == Min(times * RetryStep, RetryCap)

\* A connection that was created and has not connected yet.
NotConnected == [state |-> "connecting", times |-> 0, delay |-> 0]

-----------------------------------------------------------------------------
(* Requests and payloads of the activity-log interceptors *)

GET == <<"G", "E", "T">>

\* req.method as the interceptor receives it, a string of characters.
Methods == { GET, <<"g", "e", "t">>, <<"P", "U", "T">>, <<"p", "u", "t">> }

\* req.user?.id
ReqUsers == {Undefined, "A"}

ANONYMOUS == "ANONYMOUS"

UpperChar(c) ==
    CASE c = "g" -> "G" [] c = "e" -> "E" [] c = "t" -> "T"
      [] c = "p" -> "P" [] c = "u" -> "U" [] OTHER -> c

\* String.prototype.toUpperCase
ToUpperCase(str) == [i \in DOMAIN str |-> UpperChar(str[i])]

OrElseNullish(v, d) == IF v \in {Undefined, Null} THEN d ELSE v

\* The `||` operator: the right operand for every falsy left operand.
OrElse(v, d) == IF Truthy(v) THEN v ELSE d

IsAuditedCaseSensitive(method) == method # GET

\* `req.method.toUpperCase() !== 'GET'`
IsAudited(method) == ToUpperCase(method) # GET

BuildPayloadFromOrigin(u) ==
    [userId |-> OrElse(lreq[u].user, ANONYMOUS),
     url |-> u,
     method |-> lreq[u].method,
     responseTimeMs |-> now]

\* The ActivityLogPayload the tap callback builds for unit u at this moment.
\* url stands for req.originalUrl, which names the unit.
BuildPayload(u) ==
    [userId |-> OrElse(lreq[u].user, ANONYMOUS),
     url |-> u,
     method |-> lreq[u].method,
     responseTimeMs |-> now - start[u]]

NoRequest == [method |-> GET, user |-> Undefined]

\* JSON.stringify(payload) / JSON.parse(message)
Serialize(payload) ==
    <<payload.userId, payload.url, payload.method, payload.responseTimeMs>>

\* A message that is not JSON text, as any other client of the broker can
\* publish on the channel.
Malformed == <<"{">>

\* JSON.parse(message) returns (it throws a SyntaxError otherwise).
Parses(message) == Len(message) = 4

ParseDroppingUser(message) ==
    [userId |-> ANONYMOUS, url |-> message[2], method |-> message[3],
     responseTimeMs |-> message[4]]

Parse(message) ==
    [userId |-> message[1], url |-> message[2], method |-> message[3],
     responseTimeMs |-> message[4]]

\* Events built so far by the interceptor for unit u: emitted on the local
\* bus by the interceptor itself, or handed to publishEvent.
LocalEmits(u) == { i \in DOMAIN bus : bus[i].via = "local" /\ bus[i].payload.url = u }

Publishes(u) == { i \in DOMAIN pub : pub[i].payload.url = u }

EventsBuilt == Cardinality({ i \in DOMAIN bus : bus[i].via = "local" }) + Len(pub)

\* The boolean values of `broadcast?: boolean`.
JsFalse == "<false>"
JsTrue == "<true>"

\* What a host can pass to LogModule.forRoot(options?): nothing, or an object
\* with or without a redis configuration and with broadcast absent, false or
\* true.
LogModuleOptions ==
    {[type |-> "undefined", redis |-> Undefined, broadcast |-> Undefined]}
    \cup [type : {"object"}, redis : {Undefined, "redisConfig"},
          broadcast : {Undefined, JsFalse, JsTrue}]

\* Truthiness of a boolean-or-absent option.
TruthyFlag(v) == v \notin {Undefined, JsFalse}

ProvidesRedisServiceOnRedisAlone(o) == Truthy(o.redis)

\* `if (options?.redis && options?.broadcast)`: LOG_REDIS_SERVICE is provided,
\* and the interceptor gets a LogRedisService, only then.
ProvidesRedisService(o) == Truthy(o.redis) /\ TruthyFlag(o.broadcast)

\* The options of an instance with the broadcaster, and of one without.
OptionsFor(redis) ==
    IF redis
    THEN [type |-> "object", redis |-> "redisConfig", broadcast |-> JsTrue]
    ELSE [type |-> "undefined", redis |-> Undefined, broadcast |-> Undefined]

\* The pipeline before any request; options are left to the specification.
InitLogIdle ==
    /\ cfg \in [redis : BOOLEAN, elastic : BOOLEAN]
    /\ now = 0
    /\ wall = FirstInstant
    /\ lpc = [u \in LogUnits |-> "new"]
    /\ lreq = [u \in LogUnits |-> NoRequest]
    /\ start = [u \in LogUnits |-> 0]
    /\ handler = [u \in LogUnits |-> [values |-> 0, end |-> "none"]]
    /\ response = [u \in LogUnits |-> [values |-> 0, end |-> "none"]]
    /\ bus = <<>>
    /\ sink = <<>>
    /\ pub = <<>>
    /\ channel = <<>>
    /\ peerChannel = <<>>
    /\ peerBus = <<>>
    /\ db = {}
    /\ es = {}
    /\ conn = [c \in Connections |-> NotConnected]
    /\ peerSink = <<>>

InitLogState == InitLogIdle /\ options = OptionsFor(cfg.redis)

(* The state once NestFactory.create has resolved: the application serves. *)
Started == [state |-> "running", error |-> "none"]

InitLog == InitLogState /\ app = Started

(* Startup: the providers of ElasticConfigModule and ElasticConnModule *)

\* The application object before NestFactory.create has resolved.
Created == [state |-> "created", error |-> "none"]

\* The value ElasticConfigModule.forRoot(elasticConfig?) registers under
\* 'ELASTIC_CONFIG': the host's object, or undefined when none was passed.
ElasticConfigValue(configured) ==
    IF configured
    THEN [type |-> "object", elasticUrl |-> "url"]
    ELSE [type |-> "undefined"]

\* The useFactory of ElasticsearchModule.registerAsync: it reads
\* elasticConfig.elasticUrl, which throws a TypeError on undefined.
ElasticFactory(elasticConfig) ==
    IF elasticConfig.type = "undefined"
    THEN [threw |-> "TypeError", node |-> Undefined]
    ELSE [threw |-> "none", node |-> elasticConfig.elasticUrl]

\* NestFactory.create instantiates the providers; an error thrown by a
\* provider's factory rejects it and the application never serves.
Bootstrap ==
    /\ app.state = "created"
    /\ LET client == ElasticFactory(ElasticConfigValue(cfg.elastic))
       IN app' = IF client.threw = "none"
                 THEN Started
                 ELSE [state |-> "failed", error |-> client.threw]
    /\ UNCHANGED <<clsVars, conn, peerSink, cfg, options, now, wall, lpc, lreq, start, handler, response, bus, sink,
                   pub, channel, db, es, peerChannel, peerBus>>

-----------------------------------------------------------------------------
(* EventEmitter2 and InsertLogSniffer *)

\* eventEmitter.emit(ACTIVITY_LOG_EVENT, payload): the listener handleLogEvent
\* is called synchronously and runs up to its first await, the save inside a
\* new context carrying payload.userId.
Emit(payload, via) ==
    /\ bus' = Append(bus, [payload |-> payload, via |-> via, at |-> wall])
    /\ sink' = Append(sink, [pc |-> "save", save |-> "none", index |-> "none",
                             cls |-> payload.userId, dest |-> NoDest, issued |-> 0])

\* The entity handed to beforeInsert for the row of event i (an ActivityLog).
LogInsertEvent(i) == [hasEntity |-> TRUE, entity |-> bus[i].payload]

\* await this.logRepository.save(newLog) resolved: the row is stored, as the
\* subscriber left it; then the index step starts: the destination name and
\* the timestamp are computed from the clock and the index call is issued.
SinkSaveOk(i) ==
    /\ i \in DOMAIN sink
    /\ sink[i].pc = "save"
    /\ db' = db \cup { [task |-> i,
                        row |-> BeforeInsert(LogInsertEvent(i), sink[i].cls).entity] }
    /\ sink' = [sink EXCEPT ![i] = [@ EXCEPT !.pc = "index", !.save = "ok",
                                              !.cls = Free,
                                              !.dest = IndexName(wall),
                                              !.issued = wall]]
    /\ UNCHANGED <<clsVars, app, conn, peerSink, cfg, options, now, wall, lpc, lreq, start, handler, response, bus, pub,
                   channel, es, peerChannel, peerBus>>

\* The same step at the grain of the clock: the save settled, either way, and
\* the first `new Date()` is read for the destination name.
SinkReadDate(i) ==
    /\ i \in DOMAIN sink
    /\ sink[i].pc = "save"
    /\ \E saved \in BOOLEAN :
         /\ db' = IF saved
                  THEN db \cup { [task |-> i,
                                  row |-> BeforeInsert(LogInsertEvent(i), sink[i].cls).entity] }
                  ELSE db
         /\ sink' = [sink EXCEPT ![i] =
                       [@ EXCEPT !.pc = "timestamp",
                                 !.save = IF saved THEN "ok" ELSE "failed",
                                 !.cls = Free,
                                 !.dest = IndexName(wall),
                                 !.issued = wall]]
    /\ UNCHANGED <<clsVars, app, conn, peerSink, cfg, options, now, wall, lpc, lreq, start, handler, response, bus, pub,
                   channel, es, peerChannel, peerBus>>

\* The second `new Date()`, read for the document's timestamp while the
\* arguments of the index call are built; then the call is issued.
SinkReadTimestamp(i) ==
    /\ i \in DOMAIN sink
    /\ sink[i].pc = "timestamp"
    /\ cfg.elastic
    /\ sink' = [sink EXCEPT ![i] = [@ EXCEPT !.pc = "index", !.issued = wall]]
    /\ UNCHANGED <<clsVars, app, conn, peerSink, cfg, options, now, wall, lpc, lreq, start, handler, response, bus, pub,
                   channel, db, es, peerChannel, peerBus>>

SinkSaveFailUnhandled(i) ==
    /\ i \in DOMAIN sink
    /\ sink[i].pc = "save"
    /\ sink' = [sink EXCEPT ![i] = [@ EXCEPT !.pc = "done", !.save = "failed",
                                              !.cls = Free]]
    /\ response' = [u \in LogUnits |->
                      IF lpc[u] = "open" THEN [response[u] EXCEPT !.end = "error"]
                      ELSE response[u]]
    /\ lpc' = [u \in LogUnits |-> IF lpc[u] = "open" THEN "done" ELSE lpc[u]]
    /\ UNCHANGED <<clsVars, app, conn, peerSink, cfg, options, now, wall, lreq, start, handler, bus, pub, channel, db, es, peerChannel, peerBus>>

SinkSaveFailSkipsIndex(i) ==
    /\ i \in DOMAIN sink
    /\ sink[i].pc = "save"
    /\ sink' = [sink EXCEPT ![i] = [@ EXCEPT !.pc = "done", !.save = "failed",
                                              !.cls = Free]]
    /\ UNCHANGED <<clsVars, app, conn, peerSink, cfg, options, now, wall, lpc, lreq, start, handler, response, bus, pub,
                   channel, db, es, peerChannel, peerBus>>

\* The save rejected: caught and logged; then the index step starts.
SinkSaveFail(i) ==
    /\ i \in DOMAIN sink
    /\ sink[i].pc = "save"
    /\ sink' = [sink EXCEPT ![i] = [@ EXCEPT !.pc = "index", !.save = "failed",
                                              !.cls = Free,
                                              !.dest = IndexName(wall),
                                              !.issued = wall]]
    /\ UNCHANGED <<clsVars, app, conn, peerSink, cfg, options, now, wall, lpc, lreq, start, handler, response, bus, pub,
                   channel, db, es, peerChannel, peerBus>>

\* await this.elasticService.index(...) resolved: the document is in the
\* destination the call named.
SinkIndexOk(i) ==
    /\ i \in DOMAIN sink
    /\ sink[i].pc = "index"
    /\ cfg.elastic
    /\ es' = es \cup { [task |-> i, index |-> sink[i].dest, doc |-> bus[i].payload,
                        timestamp |-> ToISOString(sink[i].issued)] }
    /\ sink' = [sink EXCEPT ![i] = [@ EXCEPT !.pc = "done", !.index = "ok"]]
    /\ UNCHANGED <<clsVars, app, conn, peerSink, cfg, options, now, wall, lpc, lreq, start, handler, response, bus, pub,
                   channel, db, peerChannel, peerBus>>

SinkIndexFailRollback(i) ==
    /\ i \in DOMAIN sink
    /\ sink[i].pc = "index"
    /\ cfg.elastic
    /\ sink' = [sink EXCEPT ![i] = [@ EXCEPT !.pc = "done", !.index = "failed"]]
    /\ db' = { x \in db : x.task # i }
    /\ UNCHANGED <<clsVars, app, conn, peerSink, cfg, options, now, wall, lpc, lreq, start, handler, response, bus, pub,
                   channel, es, peerChannel, peerBus>>

SinkIndexFailRejects(i) ==
    /\ i \in DOMAIN sink
    /\ sink[i].pc = "index"
    /\ cfg.elastic
    /\ sink' = [sink EXCEPT ![i] = [@ EXCEPT !.pc = "rejected"]]
    /\ UNCHANGED <<clsVars, app, conn, peerSink, cfg, options, now, wall, lpc, lreq, start, handler, response, bus, pub,
                   channel, db, es, peerChannel, peerBus>>

\* The index call rejected: caught, a warning is logged.
SinkIndexFail(i) ==
    /\ i \in DOMAIN sink
    /\ sink[i].pc = "index"
    /\ cfg.elastic
    /\ sink' = [sink EXCEPT ![i] = [@ EXCEPT !.pc = "done", !.index = "failed"]]
    /\ UNCHANGED <<clsVars, app, conn, peerSink, cfg, options, now, wall, lpc, lreq, start, handler, response, bus, pub,
                   channel, db, es, peerChannel, peerBus>>

\* `if (this.elasticService)` is false: nothing is written.
SinkIndexSkip(i) ==
    /\ i \in DOMAIN sink
    /\ sink[i].pc = "index"
    /\ ~cfg.elastic
    /\ sink' = [sink EXCEPT ![i] = [@ EXCEPT !.pc = "done", !.index = "skipped"]]
    /\ UNCHANGED <<clsVars, app, conn, peerSink, cfg, options, now, wall, lpc, lreq, start, handler, response, bus, pub,
                   channel, db, es, peerChannel, peerBus>>

-----------------------------------------------------------------------------
(* LogRedisService *)

\* publisher.publish resolved: the broker holds the message for the
\* subscriber connections of the channel, this instance's included (the
\* subscriber connection of the publishing instance is subscribed to the
\* same channel name).
\* publishEvent calls publish before its first await, so the commands enter
\* the publisher's one connection in the order of the calls and the broker
\* serves them in that order.
RedisPublishOk(i) ==
    /\ conn["publisher"].state # "end"
    /\ i \in DOMAIN pub
    /\ pub[i].state = "pending"
    /\ \A j \in 1..(i - 1) : pub[j].state # "pending"
    /\ pub' = [pub EXCEPT ![i] = [@ EXCEPT !.state = "sent"]]
    /\ channel' = Append(channel, Serialize(pub[i].payload))
    /\ peerChannel' = Append(peerChannel, Serialize(pub[i].payload))
    /\ UNCHANGED <<clsVars, app, conn, peerSink, cfg, options, now, wall, lpc, lreq, start, handler, response, bus, sink,
                   db, es, peerBus>>

\* publisher.publish rejected (or the publisher is missing): caught and logged
\* inside publishEvent.
RedisPublishFail(i) ==
    /\ i \in DOMAIN pub
    /\ pub[i].state = "pending"
    /\ pub' = [pub EXCEPT ![i] = [@ EXCEPT !.state = "failed"]]
    /\ UNCHANGED <<clsVars, app, conn, peerSink, cfg, options, now, wall, lpc, lreq, start, handler, response, bus, sink,
                   channel, db, es, peerChannel, peerBus>>

RedisReceiveNewestFirst ==
    /\ conn["subscriber"].state # "end"
    /\ channel # <<>>
    /\ Emit(Parse(channel[Len(channel)]), "receiver")
    /\ channel' = SubSeq(channel, 1, Len(channel) - 1)
    /\ UNCHANGED <<clsVars, app, conn, peerSink, cfg, options, now, wall, lpc, lreq, start, handler, response, pub, db, es, peerChannel, peerBus>>

RedisReceiveUncaught ==
    /\ conn["subscriber"].state # "end"
    /\ channel # <<>>
    /\ IF Parses(Head(channel))
       THEN Emit(Parse(Head(channel)), "receiver") /\ UNCHANGED app
       ELSE /\ app' = [state |-> "failed", error |-> "SyntaxError"]
            /\ UNCHANGED <<bus, sink>>
    /\ channel' = Tail(channel)
    /\ UNCHANGED <<clsVars, conn, peerSink, cfg, options, now, wall, lpc, lreq, start, handler, response, pub, db, es, peerChannel, peerBus>>

\* subscriber.on('message'): the message is parsed and re-emitted locally; a
\* message JSON.parse rejects is logged inside the handler's catch and dropped.
RedisReceive ==
    /\ conn["subscriber"].state # "end"
    /\ channel # <<>>
    /\ IF Parses(Head(channel))
       THEN Emit(Parse(Head(channel)), "receiver")
       ELSE UNCHANGED <<bus, sink>>
    /\ channel' = Tail(channel)
    /\ UNCHANGED <<clsVars, app, conn, peerSink, cfg, options, now, wall, lpc, lreq, start, handler, response, pub, db, es, peerChannel, peerBus>>

\* The same message handler on a peer instance: the event is re-emitted on the
\* peer's bus and the peer's InsertLogSniffer starts on it.
PeerReceive ==
    /\ peerChannel # <<>>
    /\ IF Parses(Head(peerChannel))
       THEN /\ peerBus' = Append(peerBus, Parse(Head(peerChannel)))
            /\ peerSink' = Append(peerSink, [pc |-> "save", save |-> "none", index |-> "none",
                                             dest |-> NoDest, issued |-> 0])
       ELSE UNCHANGED <<peerBus, peerSink>>
    /\ peerChannel' = Tail(peerChannel)
    /\ UNCHANGED <<clsVars, app, conn, cfg, options, now, wall, lpc, lreq, start, handler, response, bus, sink,
                   pub, channel, db, es>>

\* Messages the broker holds for one subscriber at a time.
MaxQueued == 2

\* Another client of the broker publishes text that is not JSON on the
\* channel: the broker queues it for every subscriber.
ForeignPublish ==
    /\ Len(channel) < MaxQueued
    /\ Len(peerChannel) < MaxQueued
    /\ channel' = Append(channel, Malformed)
    /\ peerChannel' = Append(peerChannel, Malformed)
    /\ UNCHANGED <<clsVars, app, conn, peerSink, cfg, options, now, wall, lpc, lreq, start, handler, response, bus, sink,
                   pub, db, es, peerBus>>

\* The number under which a write of the peer for its j-th event is known in
\* the stores, apart from those of this instance.
PeerTask(j) == MaxBurst + j

\* The entity handed to beforeInsert on the peer for the row of its event j.
PeerLogInsertEvent(j) == [hasEntity |-> TRUE, entity |-> peerBus[j]]

PeerSinkSaveOkOnce(j) ==
    /\ j \in DOMAIN peerSink
    /\ peerSink[j].pc = "save"
    /\ db' = IF \E x \in db : x.row = peerBus[j]
             THEN db
             ELSE db \cup { [task |-> PeerTask(j), row |-> peerBus[j]] }
    /\ peerSink' = [peerSink EXCEPT ![j] = [@ EXCEPT !.pc = "index", !.save = "ok",
                                                      !.dest = IndexName(wall),
                                                      !.issued = wall]]
    /\ UNCHANGED <<clsVars, app, conn, cfg, options, now, wall, lpc, lreq, start, handler, response,
                   bus, sink, pub, channel, peerChannel, peerBus, es>>

\* handleLogEvent on the peer: its save resolved, the row is in the primary
\* store; then its index step starts.
PeerSinkSaveOk(j) ==
    /\ j \in DOMAIN peerSink
    /\ peerSink[j].pc = "save"
    /\ db' = db \cup { [task |-> PeerTask(j),
                        row |-> BeforeInsert(PeerLogInsertEvent(j),
                                             peerBus[j].userId).entity] }
    /\ peerSink' = [peerSink EXCEPT ![j] = [@ EXCEPT !.pc = "index", !.save = "ok",
                                                      !.dest = IndexName(wall),
                                                      !.issued = wall]]
    /\ UNCHANGED <<clsVars, app, conn, cfg, options, now, wall, lpc, lreq, start, handler, response,
                   bus, sink, pub, channel, peerChannel, peerBus, es>>

\* handleLogEvent on the peer: its index call resolved.
PeerSinkIndexOk(j) ==
    /\ j \in DOMAIN peerSink
    /\ peerSink[j].pc = "index"
    /\ cfg.elastic
    /\ es' = es \cup { [task |-> PeerTask(j), index |-> peerSink[j].dest,
                        doc |-> peerBus[j],
                        timestamp |-> ToISOString(peerSink[j].issued)] }
    /\ peerSink' = [peerSink EXCEPT ![j] = [@ EXCEPT !.pc = "done", !.index = "ok"]]
    /\ UNCHANGED <<clsVars, app, conn, cfg, options, now, wall, lpc, lreq, start, handler, response,
                   bus, sink, pub, channel, peerChannel, peerBus, db>>

\* The connection closed or failed to open: ioredis counts the attempt and
\* asks retryStrategy for the delay before the next one.
ConnectionClosed(c) ==
    /\ conn[c].state \in {"connecting", "ready"}
    /\ conn[c].times < MaxRetries
    /\ conn' = [conn EXCEPT ![c] = [state |-> "reconnecting",
                                     times |-> conn[c].times + 1,
                                     delay |-> RetryStrategy(conn[c].times + 1)]]
    /\ UNCHANGED <<clsVars, app, peerSink, cfg, options, now, wall, lpc, lreq, start, handler, response,
                   bus, sink, pub, channel, peerChannel, peerBus, db, es>>

\* The delay has passed: the connection is opened again.
Reconnect(c) ==
    /\ conn[c].state = "reconnecting"
    /\ conn' = [conn EXCEPT ![c] = [@ EXCEPT !.state = "connecting"]]
    /\ UNCHANGED <<clsVars, app, peerSink, cfg, options, now, wall, lpc, lreq, start, handler, response,
                   bus, sink, pub, channel, peerChannel, peerBus, db, es>>

\* The connection is established: the count of attempts starts over.
ConnectionReady(c) ==
    /\ conn[c].state = "connecting"
    /\ conn' = [conn EXCEPT ![c] = [state |-> "ready", times |-> 0, delay |-> 0]]
    /\ UNCHANGED <<clsVars, app, peerSink, cfg, options, now, wall, lpc, lreq, start, handler, response,
                   bus, sink, pub, channel, peerChannel, peerBus, db, es>>

\* quit() has been answered: the connection is ended and ioredis neither
\* reconnects it nor delivers events from it.
Ended == [state |-> "end", times |-> 0, delay |-> 0]

\* The application is closing: onModuleDestroy runs up to its first await,
\* publisher.quit().
OnModuleDestroy ==
    /\ app.state = "running"
    /\ app' = [state |-> "quit:publisher", error |-> "none"]
    /\ UNCHANGED <<clsVars, conn, peerSink, cfg, options, now, wall, lpc, lreq, start, handler, response,
                   bus, sink, pub, channel, peerChannel, peerBus, db, es>>

\* publisher.quit() resolved: onModuleDestroy goes on to subscriber.quit().
PublisherQuitOk ==
    /\ app.state = "quit:publisher"
    /\ conn' = [conn EXCEPT !["publisher"] = Ended]
    /\ app' = [state |-> "quit:subscriber", error |-> "none"]
    /\ UNCHANGED <<clsVars, peerSink, cfg, options, now, wall, lpc, lreq, start, handler, response,
                   bus, sink, pub, channel, peerChannel, peerBus, db, es>>

\* publisher.quit() rejected: the await throws, nothing catches it, and
\* onModuleDestroy ends rejected without reaching subscriber.quit().  Whether
\* the publisher's socket is still open then depends on why quit failed.
PublisherQuitFail ==
    /\ app.state = "quit:publisher"
    /\ \E after \in {conn["publisher"], Ended} :
          conn' = [conn EXCEPT !["publisher"] = after]
    /\ app' = [state |-> "closed", error |-> "quit"]
    /\ UNCHANGED <<clsVars, peerSink, cfg, options, now, wall, lpc, lreq, start, handler, response,
                   bus, sink, pub, channel, peerChannel, peerBus, db, es>>

\* subscriber.quit() resolved: onModuleDestroy returns.
SubscriberQuitOk ==
    /\ app.state = "quit:subscriber"
    /\ conn' = [conn EXCEPT !["subscriber"] = Ended]
    /\ app' = [state |-> "closed", error |-> "none"]
    /\ UNCHANGED <<clsVars, peerSink, cfg, options, now, wall, lpc, lreq, start, handler, response,
                   bus, sink, pub, channel, peerChannel, peerBus, db, es>>

NextRetry ==
    \E c \in Connections :
        \/ ConnectionClosed(c)
        \/ Reconnect(c)
        \/ ConnectionReady(c)

-----------------------------------------------------------------------------
(* ActivityLogInterceptor / SessionSnifferService *)

\* intercept: reads the request, takes the start time, subscribes to the
\* handler's stream through tap.  Units are numbered in order of arrival.
LogIntercept(u) ==
    /\ app.state = "running"
    /\ lpc[u] = "new"
    /\ \A v \in LogUnits : v < u => lpc[v] # "new"
    /\ \E m \in Methods, id \in ReqUsers :
         lreq' = [lreq EXCEPT ![u] = [method |-> m, user |-> id]]
    /\ start' = [start EXCEPT ![u] = now]
    /\ lpc' = [lpc EXCEPT ![u] = "open"]
    /\ UNCHANGED <<clsVars, app, conn, peerSink, cfg, options, now, wall, handler, response, bus, sink, pub, channel, db, es, peerChannel, peerBus>>

\* req.user?.id of any request a host's guard can leave behind: no user, a
\* user whose id is the empty string, a user with an id.
ResolvedIds == {Undefined, "", "A", "B"}

\* intercept, for requests with any of these users.
LogInterceptAnyUser(u) ==
    /\ app.state = "running"
    /\ lpc[u] = "new"
    /\ \A v \in LogUnits : v < u => lpc[v] # "new"
    /\ \E m \in Methods, id \in ResolvedIds :
         lreq' = [lreq EXCEPT ![u] = [method |-> m, user |-> id]]
    /\ start' = [start EXCEPT ![u] = now]
    /\ lpc' = [lpc EXCEPT ![u] = "open"]
    /\ UNCHANGED <<clsVars, app, conn, peerSink, cfg, options, now, wall, handler, response, bus, sink, pub, channel, db, es, peerChannel, peerBus>>

TapEffectEmitAndPublish(u) ==
    IF ~IsAudited(lreq[u].method)
    THEN UNCHANGED <<bus, sink, pub>>
    ELSE /\ Emit(BuildPayload(u), "local")
         /\ IF cfg.redis
            THEN pub' = Append(pub, [payload |-> BuildPayload(u), state |-> "pending"])
            ELSE UNCHANGED pub

\* What the tap callback does with the payload of an audited request: with a
\* LogRedisService it publishes (and does not emit), without one it emits.
TapEffect(u) ==
    IF ~IsAudited(lreq[u].method)
    THEN UNCHANGED <<bus, sink, pub>>
    ELSE IF cfg.redis
         THEN /\ pub' = Append(pub, [payload |-> BuildPayload(u), state |-> "pending"])
              /\ UNCHANGED <<bus, sink>>
         ELSE /\ Emit(BuildPayload(u), "local")
              /\ UNCHANGED pub

\* The wrapped operation's stream emits a value: the tap callback runs, then
\* the value goes on to the caller.
HandlerNext(u) ==
    /\ lpc[u] = "open"
    /\ handler[u].values < MaxValues
    /\ IsAudited(lreq[u].method) => EventsBuilt < MaxEvents
    /\ handler' = [handler EXCEPT ![u] = [@ EXCEPT !.values = @ + 1]]
    /\ TapEffect(u)
    /\ response' = [response EXCEPT ![u] = [@ EXCEPT !.values = @ + 1]]
    /\ UNCHANGED <<clsVars, app, conn, peerSink, cfg, options, now, wall, lpc, lreq, start, channel, db, es, peerChannel, peerBus>>

\* A variant of the stream's completion that is held back until the sink has
\* finished with every event of the unit.
HandlerCompleteAfterSinks(u) ==
    /\ lpc[u] = "open"
    /\ \A i \in DOMAIN sink : bus[i].payload.url = u => sink[i].pc = "done"
    /\ handler' = [handler EXCEPT ![u] = [@ EXCEPT !.end = "complete"]]
    /\ response' = [response EXCEPT ![u] = [@ EXCEPT !.end = "complete"]]
    /\ lpc' = [lpc EXCEPT ![u] = "done"]
    /\ UNCHANGED <<clsVars, app, conn, peerSink, cfg, options, now, wall, lreq, start, bus, sink, pub, channel, db, es, peerChannel, peerBus>>

\* The stream completes: tap was given no complete callback.
HandlerComplete(u) ==
    /\ lpc[u] = "open"
    /\ handler' = [handler EXCEPT ![u] = [@ EXCEPT !.end = "complete"]]
    /\ response' = [response EXCEPT ![u] = [@ EXCEPT !.end = "complete"]]
    /\ lpc' = [lpc EXCEPT ![u] = "done"]
    /\ UNCHANGED <<clsVars, app, conn, peerSink, cfg, options, now, wall, lreq, start, bus, sink, pub, channel, db, es, peerChannel, peerBus>>

\* The stream errors (the handler threw): tap was given no error callback.
HandlerError(u) ==
    /\ lpc[u] = "open"
    /\ handler' = [handler EXCEPT ![u] = [@ EXCEPT !.end = "error"]]
    /\ response' = [response EXCEPT ![u] = [@ EXCEPT !.end = "error"]]
    /\ lpc' = [lpc EXCEPT ![u] = "done"]
    /\ UNCHANGED <<clsVars, app, conn, peerSink, cfg, options, now, wall, lreq, start, bus, sink, pub, channel, db, es, peerChannel, peerBus>>

AbortBuildsEvent(u) ==
    /\ lpc[u] = "open"
    /\ response' = [response EXCEPT ![u] = [@ EXCEPT !.end = "aborted"]]
    /\ lpc' = [lpc EXCEPT ![u] = "done"]
    /\ TapEffect(u)
    /\ UNCHANGED <<clsVars, app, conn, peerSink, cfg, options, now, wall, lreq, start, handler, channel, db, es, peerChannel, peerBus>>

\* The caller unsubscribes before the stream ends (the request is aborted).
Abort(u) ==
    /\ lpc[u] = "open"
    /\ response' = [response EXCEPT ![u] = [@ EXCEPT !.end = "aborted"]]
    /\ lpc' = [lpc EXCEPT ![u] = "done"]
    /\ UNCHANGED <<clsVars, app, conn, peerSink, cfg, options, now, wall, lreq, start, handler, bus, sink, pub, channel, db, es, peerChannel, peerBus>>

\* performance.now() and the system clock advance together; the first counts
\* milliseconds, the second is kept in seconds.
MaxTicks == 2

MsPerTick == 1000

ClockTick ==
    /\ now < MaxTicks * MsPerTick
    /\ now' = now + MsPerTick
    /\ wall' = wall + 1
    /\ UNCHANGED <<clsVars, app, conn, peerSink, cfg, options, lpc, lreq, start, handler, response, bus, sink,
                   pub, channel, peerChannel, peerBus, db, es>>

\* The wrapped operation's stream emits a value, as in HandlerNext, within a
\* burst of events.
HandlerNextInBurst(u) ==
    /\ lpc[u] = "open"
    /\ handler[u].values < MaxValues
    /\ IsAudited(lreq[u].method) => EventsBuilt < MaxBurst
    /\ handler' = [handler EXCEPT ![u] = [@ EXCEPT !.values = @ + 1]]
    /\ TapEffect(u)
    /\ response' = [response EXCEPT ![u] = [@ EXCEPT !.values = @ + 1]]
    /\ UNCHANGED <<clsVars, app, conn, peerSink, cfg, options, now, wall, lpc, lreq, start, channel, db, es, peerChannel, peerBus>>

NextLog ==
    \/ \E u \in LogUnits :
          \/ LogIntercept(u)
          \/ HandlerNext(u)
          \/ HandlerComplete(u)
          \/ HandlerError(u)
          \/ Abort(u)
    \/ \E i \in EventSlots :
          \/ SinkSaveOk(i)
          \/ SinkSaveFail(i)
          \/ SinkIndexOk(i)
          \/ SinkIndexFail(i)
          \/ SinkIndexSkip(i)
    \/ \E i \in EventSlots :
          \/ RedisPublishOk(i)
          \/ RedisPublishFail(i)
    \/ RedisReceive
    \/ PeerReceive
-----------------------------------------------------------------------------
(* InsertLogSniffer invoked from within a unit of work *)

\* Units of work on routes the activity-log interceptor is bound to, and
\* message handlers of the broadcaster.
Logged == {1, 2}

\* payload.userId of the event: req.user?.id || 'ANONYMOUS'
EventUserIds == {"A", ANONYMOUS}

\* The ActivityLog row handed to beforeInsert, created from the payload: the
\* entity as the library declares it, or a host's variant that carries the
\* attribution columns.
LogHookEvents(id) ==
    { [hasEntity |-> TRUE, entity |-> [name |-> "log", userId |-> id]],
      [hasEntity |-> TRUE,
       entity |-> [name |-> "log", userId |-> id,
                   createdBy |-> Null, updatedBy |-> Null]] }

HandleLogEventInCallerContext(r) ==
    /\ Running(r)
    /\ r \in Logged
    /\ scoped[r].pc = "none"
    /\ \E id \in EventUserIds :
         /\ clsStore' = IF Depth(r) > 0
                        THEN [clsStore EXCEPT ![ActiveCtx(r)] = id]
                        ELSE clsStore
         /\ scoped' = [scoped EXCEPT ![r] =
                         [pc |-> "saving",
                          ctx |-> IF Depth(r) > 0 THEN ActiveCtx(r) ELSE 0,
                          userId |-> id]]
    /\ Exited(r, "handleLogEvent", Depth(r))
    /\ lastHook' = NoHook
    /\ UNCHANGED <<als, pc, reqUser>>
    /\ UNCHANGED logVars

\* eventEmitter.emit inside the tap callback (or inside the Redis message
\* handler, where no context is active) calls handleLogEvent synchronously:
\* cls.run opens a new context, the callback sets the event's userId in it
\* and runs up to `await save`; cls.run returns its promise and the caller
\* goes on in the context it had.
HandleLogEvent(r) ==
    /\ Running(r)
    /\ r \in Logged
    /\ scoped[r].pc = "none"
    /\ \E id \in EventUserIds :
         /\ clsStore' = [clsStore EXCEPT ![SinkCtxId(r)] = id]
         /\ scoped' = [scoped EXCEPT ![r] =
                         [pc |-> "saving", ctx |-> SinkCtxId(r), userId |-> id]]
    /\ Exited(r, "handleLogEvent", Depth(r))
    /\ lastHook' = NoHook
    /\ UNCHANGED <<als, pc, reqUser>>
    /\ UNCHANGED logVars

ScopedReadOfCaller(r) == ClsGet(r)

\* cls.get('userId') in the continuation of the scoped write.
ScopedRead(r) ==
    IF scoped[r].ctx \in CtxIds THEN clsStore[scoped[r].ctx] ELSE Undefined

\* The save of the scoped write: TypeORM calls beforeInsert in the
\* continuation of the callback of cls.run, then the save settles and the
\* callback's context is left; the unit may emit its next event.
ScopedSave(r) ==
    /\ scoped[r].pc = "saving"
    /\ \E event \in LogHookEvents(scoped[r].userId) :
         lastHook' = [unit |-> r, op |-> "scopedInsert", read |-> ScopedRead(r),
                      depth |-> 1, before |-> event,
                      after |-> BeforeInsert(event, ScopedRead(r)),
                      raised |-> HookRaises("insert", event, ScopedRead(r))]
    /\ clsStore' = IF scoped[r].ctx = SinkCtxId(r)
                   THEN [clsStore EXCEPT ![SinkCtxId(r)] = Free]
                   ELSE clsStore
    /\ scoped' = [scoped EXCEPT ![r] = NoScopedWrite]
    /\ lastExit' = NoExit
    /\ UNCHANGED <<als, pc, reqUser>>
    /\ UNCHANGED logVars

HandleLogEventOfRequestInCallerContext(r) ==
    /\ pc[r] = "handler"
    /\ r \in Logged
    /\ scoped[r].pc = "none"
    /\ LET id == OrElse(reqUser[r], ANONYMOUS)
       IN /\ clsStore' = IF Depth(r) > 0
                         THEN [clsStore EXCEPT ![ActiveCtx(r)] = id]
                         ELSE clsStore
          /\ scoped' = [scoped EXCEPT ![r] =
                          [pc |-> "saving",
                           ctx |-> IF Depth(r) > 0 THEN ActiveCtx(r) ELSE 0,
                           userId |-> id]]
    /\ Exited(r, "handleLogEvent", Depth(r))
    /\ lastHook' = NoHook
    /\ UNCHANGED <<als, pc, reqUser>>
    /\ UNCHANGED logVars

\* handleLogEvent for the event of a request both interceptors are bound to,
\* on a host whose extractor is `req.user?.id`: the payload's userId is what
\* the activity-log interceptor made of it, req.user?.id || 'ANONYMOUS'.
HandleLogEventOfRequest(r) ==
    /\ pc[r] = "handler"
    /\ r \in Logged
    /\ scoped[r].pc = "none"
    /\ LET id == OrElse(reqUser[r], ANONYMOUS)
       IN /\ clsStore' = [clsStore EXCEPT ![SinkCtxId(r)] = id]
          /\ scoped' = [scoped EXCEPT ![r] =
                          [pc |-> "saving", ctx |-> SinkCtxId(r), userId |-> id]]
    /\ Exited(r, "handleLogEvent", Depth(r))
    /\ lastHook' = NoHook
    /\ UNCHANGED <<als, pc, reqUser>>
    /\ UNCHANGED logVars

\* Requests with or without a user: their ordinary writes and the write of
\* their audit record.
NextAnonymous ==
    \E r \in Units :
        \/ Intercept(r)
        \/ SaveInsert(r)
        \/ SaveUpdate(r)
        \/ HandleLogEventOfRequest(r)
        \/ ScopedSave(r)
        \/ Complete(r)

NextScope ==
    \E r \in Units :
        \/ Intercept(r)
        \/ StartBackground(r)
        \/ RunWithUser(r)
        \/ RunAsSystem(r)
        \/ RunReturn(r)
        \/ HandleLogEvent(r)
        \/ ScopedSave(r)
        \/ Complete(r)

-----------------------------------------------------------------------------
(* AuditService called by background code with any string *)

\* AuditService.runWithUser(userId, fn) with whatever string the caller
\* passes, the empty one included.
RunWithAnyUser(r) ==
    /\ Running(r)
    /\ AtUnitLevel(r)
    /\ \E u \in UserIds : ClsRunSet(r, u, "runWithUser")
    /\ lastHook' = NoHook
    /\ lastExit' = NoExit
    /\ UNCHANGED scoped
    /\ UNCHANGED <<pc, reqUser>>
    /\ UNCHANGED logVars

NextRunAs ==
    \E r \in Units :
        \/ StartBackground(r)
        \/ RunWithAnyUser(r)
        \/ RunAsSystem(r)
        \/ RunSettles(r)
        \/ SaveInsert(r)
        \/ SaveUpdate(r)
        \/ Complete(r)

-----------------------------------------------------------------------------
(* Specifications *)

\* The attribution context and the subscriber; the pipeline is idle.
Init == InitCls /\ InitLog /\ cfg = [redis |-> FALSE, elastic |-> TRUE]

Next == NextCls

Spec == Init /\ [][Next]_vars

\* Units of work, run-as scopes and the sink's scoped write.
SpecScope == Init /\ [][NextScope]_vars

\* Background work calling AuditService.
SpecRunAs == Init /\ [][NextRunAs]_vars

\* The activity-log pipeline of one instance, in each configuration.
InitPipeline == InitCls /\ InitLog

NextPipeline == NextLog

SpecLog == InitPipeline /\ [][NextPipeline]_vars

\* The pipeline of an instance configured with the broadcaster, with the
\* scheduling the runtime gives it: a message the broker holds for a
\* subscribed connection is handed to its message handler.
InitBroadcast == InitPipeline /\ cfg.redis

\* The sink of an instance with an Elasticsearch client and no broadcaster,
\* over a UTC midnight; the units of work run to completion.
InitIndex == InitPipeline /\ ~cfg.redis /\ cfg.elastic

NextIndex ==
    \/ \E u \in LogUnits :
          \/ LogIntercept(u)
          \/ HandlerNext(u)
          \/ HandlerComplete(u)
    \/ \E i \in EventSlots :
          \/ SinkSaveOk(i)
          \/ SinkSaveFail(i)
          \/ SinkIndexOk(i)
          \/ SinkIndexFail(i)
    \/ Tick

SpecIndex == InitIndex /\ [][NextIndex]_vars

\* The interceptor and the broadcaster; the stores have not answered yet.
NextBroadcast ==
    \/ \E u \in LogUnits :
          \/ LogIntercept(u)
          \/ HandlerNext(u)
          \/ HandlerComplete(u)
          \/ HandlerError(u)
          \/ Abort(u)
    \/ \E i \in EventSlots :
          \/ RedisPublishOk(i)
          \/ RedisPublishFail(i)
    \/ RedisReceive
    \/ PeerReceive

SpecLogFair ==
    InitBroadcast /\ [][NextBroadcast]_vars /\ WF_vars(PeerReceive) /\ WF_vars(RedisReceive)

\* An instance without broadcaster: the interceptor emits on the local bus and
\* InsertLogSniffer works on the event on its own.  The wrapped operation
\* ends its stream; nothing is assumed of the stores, which may never answer.
InitDetached == InitPipeline /\ ~cfg.redis

NextDetached ==
    \/ \E u \in LogUnits :
          \/ LogIntercept(u)
          \/ HandlerNext(u)
          \/ HandlerComplete(u)
          \/ HandlerError(u)
    \/ \E i \in EventSlots :
          \/ SinkSaveOk(i)
          \/ SinkSaveFail(i)
          \/ SinkIndexOk(i)
          \/ SinkIndexFail(i)
          \/ SinkIndexSkip(i)

SpecDetached ==
    InitDetached /\ [][NextDetached]_vars
    /\ \A u \in LogUnits : WF_vars(HandlerComplete(u))

\* The interceptor of an instance in each configuration, for requests with
\* any user, and the events as they reach the local bus.
NextActor ==
    \/ \E u \in LogUnits :
          \/ LogInterceptAnyUser(u)
          \/ HandlerNext(u)
          \/ HandlerComplete(u)
    \/ \E i \in EventSlots : RedisPublishOk(i)
    \/ RedisReceive
    \/ PeerReceive

SpecActor == InitPipeline /\ [][NextActor]_vars

\* The interceptor and the broadcaster of an instance in each configuration
\* while time passes; the stores have not answered yet.
InitClock == InitPipeline /\ cfg.elastic

NextClock ==
    \/ \E u \in LogUnits :
          \/ LogIntercept(u)
          \/ HandlerNextInBurst(u)
    \/ \E i \in BurstSlots : RedisPublishOk(i)
    \/ RedisReceive
    \/ ClockTick

SpecClock == InitClock /\ [][NextClock]_vars

\* Units of work whose writes meet failures inside the subscriber's hooks.
NextHook ==
    \E r \in Units :
        \/ Intercept(r)
        \/ StartBackground(r)
        \/ SaveInsertWithFault(r)
        \/ SaveUpdateWithFault(r)
        \/ Complete(r)

SpecHook == Init /\ [][NextHook]_vars

\* The two connections of a LogRedisService losing and regaining the server.
InitRetry == InitBroadcast /\ cfg.elastic

SpecRetry == InitRetry /\ [][NextRetry]_vars

\* Two instances subscribed to the channel, this one and a peer, both with a
\* primary store and a secondary index that answer.
NumInstances == 2

InitFanOut == InitBroadcast /\ cfg.elastic

NextFanOut ==
    \/ \E u \in LogUnits :
          \/ LogIntercept(u)
          \/ HandlerNext(u)
          \/ HandlerComplete(u)
    \/ \E i \in EventSlots :
          \/ RedisPublishOk(i)
          \/ SinkSaveOk(i)
          \/ SinkIndexOk(i)
          \/ PeerSinkSaveOk(i)
          \/ PeerSinkIndexOk(i)
    \/ RedisReceive
    \/ PeerReceive

SpecFanOut == InitFanOut /\ [][NextFanOut]_vars

\* An instance from the creation of the application on, in each
\* configuration: startup, then the interceptor, the broadcaster and the sink.
InitStartup == InitCls /\ InitLogState /\ app = Created

NextStartup ==
    \/ Bootstrap
    \/ \E u \in LogUnits :
          \/ LogIntercept(u)
          \/ HandlerNext(u)
          \/ HandlerComplete(u)
    \/ \E i \in EventSlots :
          \/ RedisPublishOk(i)
          \/ SinkSaveOk(i)
          \/ SinkSaveFail(i)
          \/ SinkIndexOk(i)
          \/ SinkIndexFail(i)
    \/ RedisReceive

SpecStartup == InitStartup /\ [][NextStartup]_vars

\* An instance configured with the broadcaster from startup to the end of
\* onModuleDestroy; closing the subscriber succeeds.
InitShutdown == InitBroadcast /\ cfg.elastic

NextShutdown ==
    \/ \E u \in LogUnits :
          \/ LogIntercept(u)
          \/ HandlerNext(u)
          \/ HandlerComplete(u)
    \/ \E i \in EventSlots : RedisPublishOk(i)
    \/ RedisReceive
    \/ \E c \in Connections : ConnectionReady(c)
    \/ OnModuleDestroy
    \/ PublisherQuitOk
    \/ PublisherQuitFail
    \/ SubscriberQuitOk

SpecShutdown == InitShutdown /\ [][NextShutdown]_vars

\* The pipeline of an instance for every LogModuleOptions a host can pass.
InitOptions ==
    /\ InitCls
    /\ InitLogIdle
    /\ app = Started
    /\ options \in LogModuleOptions
    /\ cfg.redis = ProvidesRedisService(options)

NextOptions ==
    \/ \E u \in LogUnits :
          \/ LogIntercept(u)
          \/ HandlerNext(u)
          \/ HandlerComplete(u)
    \/ \E i \in EventSlots :
          \/ RedisPublishOk(i)
          \/ RedisPublishFail(i)
    \/ RedisReceive

SpecOptions == InitOptions /\ [][NextOptions]_vars

\* The broadcaster on a channel other clients publish on as well.  The
\* runtime hands every message that arrived on the subscriber's socket to the
\* message handler.
InitForeign == InitBroadcast /\ cfg.elastic

NextForeign ==
    \/ \E u \in LogUnits :
          \/ LogIntercept(u)
          \/ HandlerNext(u)
          \/ HandlerComplete(u)
    \/ \E i \in EventSlots : RedisPublishOk(i)
    \/ ForeignPublish
    \/ RedisReceive
    \/ PeerReceive

SpecForeign == InitForeign /\ [][NextForeign]_vars /\ WF_vars(RedisReceive)

\* InsertLogSniffer on the events of an instance in each configuration, with
\* stores that answer every call, by resolving or by rejecting: a pending
\* save settles, and so does a pending index call (or the step is skipped).
NextSink ==
    \/ \E u \in LogUnits :
          \/ LogIntercept(u)
          \/ HandlerNext(u)
          \/ HandlerComplete(u)
    \/ \E i \in EventSlots :
          \/ RedisPublishOk(i)
          \/ SinkSaveOk(i)
          \/ SinkSaveFail(i)
          \/ SinkIndexOk(i)
          \/ SinkIndexFail(i)
          \/ SinkIndexSkip(i)
    \/ RedisReceive

SaveSettles(i) == SinkSaveOk(i) \/ SinkSaveFail(i)

IndexSettles(i) == SinkIndexOk(i) \/ SinkIndexFail(i) \/ SinkIndexSkip(i)

SpecSink ==
    /\ InitPipeline
    /\ [][NextSink]_vars
    /\ \A i \in EventSlots : WF_vars(SaveSettles(i)) /\ WF_vars(IndexSettles(i))

\* Requests on routes both interceptors are bound to.
SpecAnonymous == Init /\ [][NextAnonymous]_vars

\* The index step of the sink at the grain of its two clock reads, over a
\* UTC midnight.
NextReads ==
    \/ \E u \in LogUnits :
          \/ LogIntercept(u)
          \/ HandlerNext(u)
          \/ HandlerComplete(u)
    \/ \E i \in EventSlots :
          \/ SinkReadDate(i)
          \/ SinkReadTimestamp(i)
          \/ SinkIndexOk(i)
          \/ SinkIndexFail(i)
    \/ Tick

SpecReads == InitIndex /\ [][NextReads]_vars

-----------------------------------------------------------------------------
(* Claims about the attribution context and the subscriber (under Spec) *)

\* The userId the innermost open scope of unit r was given.
OwnUser(r) == als[r][Depth(r)].set

HookRan == lastHook.op \in {"insert", "update"}

HookUnit == lastHook.unit

\* The hook found an actor id it treats as present: a context was active and
\* its userId was neither null/undefined nor empty.
HookSawActor == HookRan /\ lastHook.depth > 0 /\ Truthy(lastHook.read)

Exposes(event, f) == event.hasEntity /\ f \in DOMAIN event.entity

\* C1: units of work that overlap in time never observe each other's userId:
\* whatever the interleaving, a read of the active context's userId by a
\* continuation of a unit returns the value that unit itself set (A for the
\* unit that set A, B for the unit that set B), and so does every read the
\* subscriber hook makes on the unit's behalf.
C1_Isolation ==
    /\ \A r \in Units : Running(r) /\ Depth(r) > 0 => ClsGet(r) = OwnUser(r)
    /\ HookRan /\ lastHook.depth > 0 => lastHook.read = OwnUser(HookUnit)

C1_Witness ==
    \E r, q \in Units :
        /\ r # q /\ Running(r) /\ Running(q)
        /\ Depth(r) = 1 /\ als[r][1].by = "intercept" /\ OwnUser(r) = "A"
        /\ Depth(q) = 1 /\ als[q][1].by = "runWithUser" /\ OwnUser(q) = "B"
        /\ HookRan /\ HookUnit = r /\ lastHook.read = "A"

C3_InsertStampsBoth ==
    ( /\ HookSawActor /\ lastHook.op = "insert"
      /\ Exposes(lastHook.before, "createdBy")
      /\ Exposes(lastHook.before, "updatedBy") )
    => /\ lastHook.after.entity.createdBy = OwnUser(HookUnit)
       /\ lastHook.after.entity.updatedBy = OwnUser(HookUnit)

C3_Witness ==
    /\ HookSawActor /\ lastHook.op = "insert"
    /\ lastHook.before.hasEntity
    /\ lastHook.before.entity = [name |-> "n", createdBy |-> "Z", updatedBy |-> "Z"]
    /\ lastHook.after.entity = [name |-> "n", createdBy |-> "A", updatedBy |-> "A"]

\* C4: in a unit of work with a present actor id, after beforeUpdate has run
\* on a record that exposes updatedBy, updatedBy equals that actor id, and
\* createdBy is as it was before the hook ran (same value if the record
\* exposes it, still not exposed otherwise).
C4_UpdateStampsUpdatedByOnly ==
    ( /\ HookSawActor /\ lastHook.op = "update"
      /\ Exposes(lastHook.before, "updatedBy") )
    => /\ lastHook.after.entity.updatedBy = OwnUser(HookUnit)
       /\ Exposes(lastHook.after, "createdBy") = Exposes(lastHook.before, "createdBy")
       /\ Exposes(lastHook.before, "createdBy") =>
             lastHook.after.entity.createdBy = lastHook.before.entity.createdBy

C4_Witness ==
    /\ HookSawActor /\ lastHook.op = "update"
    /\ lastHook.before.hasEntity
    /\ lastHook.before.entity = [name |-> "n", createdBy |-> "Z", updatedBy |-> "Z"]
    /\ lastHook.after.entity = [name |-> "n", createdBy |-> "Z", updatedBy |-> "B"]

\* C5: when a hook (beforeInsert or beforeUpdate) fires with no active context,
\* or with a context whose actor id is absent, it returns without raising and
\* the record it was given is exactly as it was.
C5_AbsentActorNoOp ==
    HookRan /\ ~HookSawActor =>
        /\ ~lastHook.raised
        /\ lastHook.after = lastHook.before

C5_Witness ==
    /\ HookRan /\ lastHook.op = "insert"
    /\ pc[HookUnit] = "handler" /\ lastHook.depth = 1 /\ lastHook.read = Null
    /\ Exposes(lastHook.before, "createdBy")
    /\ lastHook.before.entity.createdBy = "Z"
    /\ lastHook.after = lastHook.before

-----------------------------------------------------------------------------
(* Claims about the activity-log pipeline (under SpecLog) *)

\* Events the interceptor built for unit u, emitted locally or published.
EventsOf(u) == Cardinality(LocalEmits(u)) + Cardinality(Publishes(u))

\* The request's verb equals GET when case is ignored.
IsGetVerb(method) == ToUpperCase(method) = ToUpperCase(GET)

\* C6: no event whose verb is GET in any casing is ever emitted on the local
\* bus or published to the channel by the interceptor, and a unit of work
\* whose verb is GET produces no event at all.
C6_NoEventForGet ==
    /\ \A i \in DOMAIN bus :
          bus[i].via = "local" => ~IsGetVerb(bus[i].payload.method)
    /\ \A i \in DOMAIN pub : ~IsGetVerb(pub[i].payload.method)
    /\ \A u \in LogUnits :
          lpc[u] # "new" /\ IsGetVerb(lreq[u].method) =>
            /\ EventsOf(u) = 0
            /\ \A i \in DOMAIN bus : bus[i].payload.url # u

C6_Witness ==
    \E u \in LogUnits :
        /\ lpc[u] = "done" /\ handler[u].end = "complete"
        /\ handler[u].values >= 1
        /\ lreq[u].method = <<"g", "e", "t">>
        /\ EventsOf(u) = 0

\* C7 (as claimed): every unit of work with a non-GET verb that completes has
\* produced exactly one event, whatever number of values its result stream
\* emitted, and that event has been delivered on the local bus.
C7_ExactlyOneEventPerUnit ==
    \A u \in LogUnits :
        ( /\ lpc[u] = "done" /\ handler[u].end = "complete"
          /\ ~IsGetVerb(lreq[u].method) )
        => /\ EventsOf(u) = 1
           /\ \E i \in DOMAIN bus : bus[i].payload.url = u

\* C8 (as claimed): when the wrapped operation of a non-GET unit of work exits
\* with an error, an event has been built and emitted for it.
C8_EventOnErrorExit ==
    \A u \in LogUnits :
        ( /\ lpc[u] = "done" /\ handler[u].end = "error"
          /\ ~IsGetVerb(lreq[u].method) )
        => EventsOf(u) >= 1

\* C9: whatever fails in the audit pipeline (primary-store write, index
\* write, publish), the caller of a unit of work receives exactly the values
\* the wrapped operation emitted and the completion or error it ended with.
C9_ResponseUnaffected ==
    \A u \in LogUnits :
        /\ response[u].values = handler[u].values
        /\ handler[u].end # "none" => response[u].end = handler[u].end
        /\ response[u].end \in {"complete", "error"} =>
              response[u].end = handler[u].end

C9_Witness ==
    \E u \in LogUnits, i \in DOMAIN sink :
        /\ bus[i].payload.url = u
        /\ sink[i].save = "failed" /\ sink[i].index = "failed"
        /\ response[u] = [values |-> 1, end |-> "complete"]

\* C10: a failed index write neither prevents nor undoes the primary-store
\* write of the same event: whenever the save of an event succeeded its row is
\* in the primary store, also after the index write failed and the handler
\* finished.
C10_PrimaryWriteSurvivesIndexFailure ==
    \A i \in DOMAIN sink :
        sink[i].save = "ok" => \E x \in db : x.task = i /\ x.row = bus[i].payload

C10_Witness ==
    \E i \in DOMAIN sink :
        /\ sink[i].pc = "done" /\ sink[i].save = "ok" /\ sink[i].index = "failed"
        /\ \E x \in db : x.task = i /\ x.row = bus[i].payload

\* A step of InsertLogSniffer was attempted: it resolved or it rejected.
Attempted(outcome) == outcome \in {"ok", "failed"}

\* C11: for every event the handler has finished with, the primary-store
\* write was attempted, and where a secondary index is configured the index
\* write was attempted too, whatever the outcome of the other; in particular
\* after a failed primary-store write the index write is still attempted.
C11_BothSinksAttempted ==
    \A i \in DOMAIN sink :
        /\ sink[i].pc \in {"index", "done"} => Attempted(sink[i].save)
        /\ sink[i].pc = "done" /\ cfg.elastic => Attempted(sink[i].index)
        /\ sink[i].pc = "done" /\ sink[i].index = "failed" => Attempted(sink[i].save)

C11_Witness ==
    \E i \in DOMAIN sink :
        /\ sink[i].pc = "done"
        /\ sink[i].save = "failed"
        /\ sink[i].index = "ok"
        /\ \E x \in es : x.task = i
        /\ ~\E x \in db : x.task = i

\* Events the tap callback of unit u built: one per value of an audited unit.
Built(u) == IF IsGetVerb(lreq[u].method) THEN 0 ELSE handler[u].values

\* C12 (as claimed): when the broadcaster is configured and the publish of an
\* event failed, the event has been delivered on the local bus of the
\* originating instance, so that its sinks received it.
C12_LocalDeliveryDespitePublishFailure ==
    \A i \in DOMAIN pub :
        pub[i].state = "failed" =>
            \E j \in DOMAIN bus : bus[j].payload = pub[i].payload

\* C13 (as claimed): no event this instance published enters its own local
\* bus through the receiver path.
C13_ReceiverNeverLoopsBack ==
    \A j \in DOMAIN bus :
        bus[j].via = "receiver" =>
            ~\E i \in DOMAIN pub : pub[i].payload = bus[j].payload

\* C14: with a broker that hands each published message to each subscriber
\* connection once, the local bus of the originating instance and the bus of
\* a peer each carry an event of a unit of work at most once per event built,
\* and the sink handler is invoked once per event on the bus.
C14_NoDoubleProcessing ==
    /\ \A u \in LogUnits :
          /\ Cardinality({ j \in DOMAIN bus : bus[j].payload.url = u }) <= Built(u)
          /\ Cardinality({ j \in DOMAIN peerBus : peerBus[j].url = u }) <= Built(u)
    /\ Len(sink) = Len(bus)

C14_Witness ==
    \E u \in LogUnits :
        /\ cfg.redis
        /\ Built(u) = 1
        /\ \E i \in DOMAIN pub : pub[i].state = "sent" /\ pub[i].payload.url = u
        /\ Cardinality({ j \in DOMAIN bus : bus[j].payload.url = u }) = 1
        /\ Cardinality({ j \in DOMAIN peerBus : peerBus[j].url = u }) = 1
        /\ channel = <<>> /\ peerChannel = <<>>

-----------------------------------------------------------------------------
(* Claims about the index destination (under SpecIndex) *)

\* Days between the epoch and the UTC calendar date of instant t.
UtcDay(t) == t \div SecondsPerDay

\* The instant at which the index write of the document x was issued.
WrittenAt(x) == sink[x.task].issued

C17_IndexNamedByDateOfEvent ==
    \A x \in es :
        x.index = <<"activity-logs-", <<1970, 1, UtcDay(bus[x.task].at) + 1>>>>

-----------------------------------------------------------------------------
(* Claims about scopes and the sink's scoped write (under SpecScope) *)

\* The context objects that are active, or suspended, in the chain of unit r.
ChainCtxs(r) == { als[r][k].ctx : k \in DOMAIN als[r] }

ScopedHookRan == lastHook.op = "scopedInsert"

\* C18: while the primary-store write of an event is in progress, it runs in
\* a context of its own, which is in no unit's chain of contexts and holds the
\* event's userId; the hook that fires during the write reads the event's
\* userId and stamps it on a row that exposes the attribution fields,
\* whatever the context of the code that emitted the event holds.
C18_ScopedWriteCarriesEventUser ==
    /\ \A r \in Units :
          scoped[r].pc = "saving" =>
            /\ \A q \in Units : scoped[r].ctx \notin ChainCtxs(q)
            /\ \A q \in Units : q # r /\ scoped[q].pc = "saving" =>
                   scoped[q].ctx # scoped[r].ctx
            /\ scoped[r].ctx \in CtxIds
            /\ clsStore[scoped[r].ctx] = scoped[r].userId
    /\ ScopedHookRan =>
          /\ lastHook.read = lastHook.before.entity.userId
          /\ Exposes(lastHook.before, "createdBy") =>
                /\ lastHook.after.entity.createdBy = lastHook.read
                /\ lastHook.after.entity.updatedBy = lastHook.read

C18_Witness ==
    /\ ScopedHookRan
    /\ pc[lastHook.unit] = "handler"
    /\ Depth(lastHook.unit) = 1
    /\ ClsGet(lastHook.unit) = "B"
    /\ lastHook.read = "A"
    /\ lastHook.after.entity =
          [name |-> "log", userId |-> "A", createdBy |-> "A", updatedBy |-> "A"]

\* C19: when a runWithUser / runAsSystem scope ends, or the sink's scoped
\* write has been started, the caller is back in the context that was active
\* before, at the same depth, and reads the userId that context was given
\* (nothing when no context was active); every context of a chain is an
\* object of its own and keeps the userId it was given while scopes nested in
\* it are open.
C19_NestedScopeRestoresOuter ==
    /\ lastExit.of # "none" =>
          /\ Depth(lastExit.unit) = lastExit.depth
          /\ lastExit.depth = 0 => lastExit.read = Undefined
          /\ lastExit.depth > 0 =>
                lastExit.read = als[lastExit.unit][lastExit.depth].set
    /\ \A r \in Units :
          /\ \A k, l \in DOMAIN als[r] : k # l => als[r][k].ctx # als[r][l].ctx
          /\ \A k \in DOMAIN als[r] : clsStore[als[r][k].ctx] = als[r][k].set

C19_Witness ==
    /\ lastExit.of = "runWithUser"
    /\ lastExit.depth = 1
    /\ lastExit.read = "A"
    /\ als[lastExit.unit][1].by = "intercept"
    /\ scoped[lastExit.unit].pc = "saving"
    /\ scoped[lastExit.unit].userId = ANONYMOUS

\* The userId the interceptor set for the inbound unit r.
UnitUser(r) == NullishCoalesce(reqUser[r], Null)

\* C20: outside a nested run-as scope, a read of the userId in an inbound
\* unit of work returns what the interceptor set, at every moment of the unit
\* and in particular right after the sink handler was invoked from it; the
\* unit's context keeps that value while a nested scope is open.
C20_UnitUserStable ==
    /\ \A r \in Units :
          pc[r] = "handler" =>
            /\ Depth(r) >= 1
            /\ clsStore[als[r][1].ctx] = UnitUser(r)
            /\ AtUnitLevel(r) => ClsGet(r) = UnitUser(r)
    /\ ( /\ lastExit.of = "handleLogEvent"
         /\ pc[lastExit.unit] = "handler"
         /\ lastExit.depth = 1 )
       => lastExit.read = UnitUser(lastExit.unit)

C20_Witness ==
    /\ lastExit.of = "handleLogEvent"
    /\ pc[lastExit.unit] = "handler"
    /\ lastExit.depth = 1
    /\ lastExit.read = "B"
    /\ scoped[lastExit.unit].pc = "saving"
    /\ scoped[lastExit.unit].userId = "A"
    /\ ClsGet(lastExit.unit) = "B"

-----------------------------------------------------------------------------
(* Claims about AuditService (under SpecRunAs) *)

\* The hook of the step just taken ran inside a runWithUser / runAsSystem
\* scope, on a record that exposes the fields the hook writes for that
\* operation.
HookInRunAs ==
    /\ HookRan
    /\ lastHook.depth > 0
    /\ als[HookUnit][lastHook.depth].by = "runWithUser"
    /\ Exposes(lastHook.before, "updatedBy")
    /\ lastHook.op = "insert" => Exposes(lastHook.before, "createdBy")

\* The fields the hook writes for the operation all equal v afterwards.
StampedWith(v) ==
    /\ lastHook.after.entity.updatedBy = v
    /\ lastHook.op = "insert" => lastHook.after.entity.createdBy = v

\* runWithUser hands fn's outcome to its caller unchanged.
RunWithUserTransparent ==
    lastExit.of = "runWithUser" =>
        /\ lastExit.got.kind = lastExit.fn.kind
        /\ lastExit.got.value = lastExit.fn.value

\* C21 (as claimed): every write through the hook inside runWithUser(u, fn)
\* is stamped with u, for every string u, and inside runAsSystem with
\* 'SYSTEM'; runWithUser returns fn's result and propagates fn's error.
C21_RunAsStampsEveryUser ==
    /\ HookInRunAs => StampedWith(OwnUser(HookUnit))
    /\ RunWithUserTransparent

\* C21 (amended): every write through the hook inside runWithUser(u, fn) with
\* a non-empty u is stamped with u, and inside runAsSystem with 'SYSTEM';
\* with the empty string the hook leaves the record as it was.  runWithUser
\* returns fn's result and propagates fn's error.
C21_RunAsStampsNonEmptyUser ==
    /\ HookInRunAs /\ OwnUser(HookUnit) # "" => StampedWith(OwnUser(HookUnit))
    /\ HookInRunAs /\ OwnUser(HookUnit) = "" => lastHook.after = lastHook.before
    /\ HookInRunAs /\ lastHook.read = SYSTEM => StampedWith(SYSTEM)
    /\ RunWithUserTransparent

C21_Witness ==
    /\ HookInRunAs
    /\ lastHook.op = "insert"
    /\ pc[HookUnit] = "background"
    /\ OwnUser(HookUnit) = SYSTEM
    /\ lastHook.before.entity = [name |-> "n", createdBy |-> Null, updatedBy |-> Null]
    /\ lastHook.after.entity = [name |-> "n", createdBy |-> SYSTEM, updatedBy |-> SYSTEM]

-----------------------------------------------------------------------------
(* Claims about the sink's detachment from the unit of work (under SpecDetached) *)

\* Sink work of unit u that has not finished.
SinkPending(u) ==
    \E i \in DOMAIN sink : bus[i].payload.url = u /\ sink[i].pc # "done"

\* C22: the sink handler's work is fire-and-forget: a value of the wrapped
\* operation reaches the caller in the step that emits its event, before any
\* sink write has answered, and every open unit of work whose wrapped
\* operation ends is completed, also in the behaviours where the primary-store
\* write or the index write of its event never completes.
C22_UnitCompletesWithoutSink ==
    /\ [](\A u \in LogUnits : response[u].values >= Cardinality(LocalEmits(u)))
    /\ \A u \in LogUnits : (lpc[u] = "open") ~> (lpc[u] = "done")

C22_Witness ==
    \E u \in LogUnits, i \in DOMAIN sink :
        /\ bus[i].payload.url = u
        /\ sink[i].pc = "save"
        /\ db = {} /\ es = {}
        /\ lpc[u] = "done"
        /\ response[u] = [values |-> 1, end |-> "complete"]

-----------------------------------------------------------------------------
(* Claims about the fields of an event (under SpecActor) *)

\* An actor id was resolved from the request: there is a user and its id is
\* not the empty string.
ActorResolved(u) == lreq[u].user \notin {Undefined, Null, ""}

\* The actor id the event of unit u must carry.
ExpectedActor(u) == IF ActorResolved(u) THEN lreq[u].user ELSE ANONYMOUS

\* The events in existence: handed to publishEvent, on the local bus, on a
\* peer's bus.
AllEvents ==
    { pub[i].payload : i \in DOMAIN pub } \cup { bus[i].payload : i \in DOMAIN bus }
        \cup { peerBus[i] : i \in DOMAIN peerBus }

\* C23: the actor id of every event is the id resolved from the request when
\* there is one, and 'ANONYMOUS' exactly when none was resolved; no event
\* carries an absent or empty actor id.
C23_ActorIdOrSentinel ==
    \A e \in AllEvents :
        /\ e.userId = ExpectedActor(e.url)
        /\ (e.userId = ANONYMOUS) <=> ~ActorResolved(e.url)
        /\ e.userId \notin {Undefined, Null, ""}

C23_Witness ==
    /\ \E e \in AllEvents : lreq[e.url].user = "" /\ e.userId = ANONYMOUS
    /\ \E i \in DOMAIN bus : bus[i].via \in {"local", "receiver"}

\* C24 (as claimed): the verb of every event is in upper case, whatever the
\* casing of the request's method: it equals the method converted to upper
\* case.
C24_VerbUppercase ==
    \A e \in AllEvents :
        /\ e.method = ToUpperCase(e.method)
        /\ e.method = ToUpperCase(lreq[e.url].method)

-----------------------------------------------------------------------------
(* Claims about order and duration (under SpecClock) *)

RECURSIVE PayloadsOf(_)
\* The payloads of a sequence of publish records, in their order.
PayloadsOf(records) ==
    IF records = <<>> THEN <<>>
    ELSE <<Head(records).payload>> \o PayloadsOf(Tail(records))

IsSent(p) == p.state = "sent"

ViaReceiver(b) == b.via = "receiver"

ViaLocal(b) == b.via = "local"

\* What the publisher of this instance published, in the order of its calls.
PublishedInOrder == PayloadsOf(SelectSeq(pub, IsSent))

\* The reading of performance.now() at which a payload was built.
BuiltAt(payload) == start[payload.url] + payload.responseTimeMs

\* C25: the handlers of one instance are invoked for the events of one
\* publisher in the order in which it published them: on the local bus in the
\* order in which the events were built, and through the channel in the order
\* of the publish calls, for the messages handed over and for those waiting.
C25_DeliveryInPublishOrder ==
    /\ \A i, j \in DOMAIN bus :
          (i < j /\ ViaLocal(bus[i]) /\ ViaLocal(bus[j]))
            => BuiltAt(bus[i].payload) <= BuiltAt(bus[j].payload)
    /\ \A k \in 1..Len(PayloadsOf(SelectSeq(bus, ViaReceiver))) :
          PayloadsOf(SelectSeq(bus, ViaReceiver))[k] = PublishedInOrder[k]
    /\ \A k \in DOMAIN channel :
          Parse(channel[k])
            = PublishedInOrder[Len(PayloadsOf(SelectSeq(bus, ViaReceiver))) + k]
    /\ Len(PayloadsOf(SelectSeq(bus, ViaReceiver))) + Len(channel) = Len(PublishedInOrder)

C25_Witness ==
    /\ Len(pub) = 2 /\ pub[1].payload # pub[2].payload
    /\ Len(bus) = 2 /\ ViaReceiver(bus[1]) /\ ViaReceiver(bus[2])
    /\ bus[1].payload = pub[1].payload /\ bus[2].payload = pub[2].payload

\* The reading of performance.now() at the instant the system clock showed t.
PerformanceAt(t) == (t - FirstInstant) * MsPerTick

\* C30: the responseTimeMs of an event is the time that passed between the
\* interceptor's invocation for the unit of work and the delivery of the
\* value the event was built for, and it is never negative.
C30_ResponseTimeIsElapsed ==
    /\ \A i \in DOMAIN bus :
          ViaLocal(bus[i]) =>
            /\ bus[i].payload.responseTimeMs
                 = PerformanceAt(bus[i].at) - start[bus[i].payload.url]
            /\ bus[i].payload.responseTimeMs >= 0
    /\ \A i \in DOMAIN pub :
          /\ pub[i].payload.responseTimeMs >= 0
          /\ pub[i].payload.responseTimeMs <= now - start[pub[i].payload.url]

C30_Witness ==
    \E i \in DOMAIN bus :
        /\ ViaLocal(bus[i])
        /\ start[bus[i].payload.url] = MsPerTick
        /\ bus[i].payload.responseTimeMs = MsPerTick
        /\ now = 2 * MsPerTick

-----------------------------------------------------------------------------
(* Claims about failures inside the hooks (under SpecHook) *)

\* C26: an error raised while a hook reads the context or writes an
\* attribution field is caught inside beforeInsert / beforeUpdate: the hook
\* does not raise, and the underlying write proceeds with the record as the
\* hook left it.
C26_HookErrorNeverPropagates ==
    (HookRan /\ lastHook.thrown) =>
        /\ ~lastHook.raised
        /\ lastHook.write.done
        /\ lastHook.write.event = lastHook.after

C26_Witness ==
    /\ HookRan
    /\ lastHook.op = "insert"
    /\ lastHook.fault = "updatedBy" /\ lastHook.thrown
    /\ lastHook.read = "A"
    /\ lastHook.before.entity = [name |-> "n", createdBy |-> Null, updatedBy |-> Null]
    /\ lastHook.after.entity = [name |-> "n", createdBy |-> "A", updatedBy |-> Null]
    /\ lastHook.write.done

-----------------------------------------------------------------------------
(* Claims about aborted units of work (under SpecLog) *)

\* Unit u was aborted before its wrapped operation produced a value.
AbortedBeforeResult(u) ==
    /\ lpc[u] = "done"
    /\ response[u].end = "aborted"
    /\ handler[u].values = 0

\* C27: for a unit of work aborted (its result stream unsubscribed) before
\* the wrapped operation produced a result, no event is emitted or published,
\* then or later: none is on the local bus, handed to publishEvent, on the
\* channel or with a peer.
C27_NoEventWhenAborted ==
    \A u \in LogUnits :
        AbortedBeforeResult(u) =>
            /\ EventsOf(u) = 0
            /\ \A i \in DOMAIN bus : bus[i].payload.url # u
            /\ \A i \in DOMAIN channel : Parse(channel[i]).url # u
            /\ \A i \in DOMAIN peerBus : peerBus[i].url # u

C27_Witness ==
    \E u \in LogUnits :
        /\ AbortedBeforeResult(u)
        /\ lreq[u].method = <<"P", "U", "T">>
        /\ lreq[u].user = "A"
        /\ bus = <<>> /\ pub = <<>>

-----------------------------------------------------------------------------
(* Claims about the reconnect delay (under SpecRetry) *)

\* Connection c goes from one failed attempt to the next in this step.
NextAttempt(c) == conn[c].times >= 1 /\ conn'[c].times = conn[c].times + 1

DelayWithinCap == \A c \in Connections : conn[c].delay <= 2000

\* C28 (as claimed): the reconnect delay never exceeds 2000 ms and doubles
\* from one attempt to the next while it is below the cap.
C28_ExponentialBackoff ==
    /\ []DelayWithinCap
    /\ [][\A c \in Connections :
            (NextAttempt(c) /\ conn'[c].delay < 2000)
                => conn'[c].delay = 2 * conn[c].delay]_vars

\* C28 (amended): the reconnect delay never exceeds 2000 ms and is
\* min(50 * n, 2000) ms for the n-th attempt in a row: it grows by 50 ms from
\* one attempt to the next until it reaches the cap and stays there.
C28_LinearBackoff ==
    /\ []DelayWithinCap
    /\ [](\A c \in Connections :
            conn[c].times >= 1 =>
                conn[c].delay = IF conn[c].times <= 40 THEN 50 * conn[c].times ELSE 2000)
    /\ [][\A c \in Connections :
            NextAttempt(c) =>
                conn'[c].delay = IF conn[c].delay < 2000 THEN conn[c].delay + 50
                                 ELSE 2000]_vars

C28_Witness ==
    /\ conn["publisher"].times = 41 /\ conn["publisher"].delay = 2000
    /\ conn["subscriber"].times = 3 /\ conn["subscriber"].delay = 150

-----------------------------------------------------------------------------
(* Claims about the writes of every subscribed instance (under SpecFanOut) *)

\* The writes known in a store for the k-th published event.
WritesFor(store, k) == { x \in store : x.task \in {k, PeerTask(k)} }

OwnDone(k) == k \in DOMAIN sink /\ sink[k].pc = "done"

PeerDone(k) == k \in DOMAIN peerSink /\ peerSink[k].pc = "done"

\* C29: with the broadcaster enabled and the instances subscribed to the
\* channel, every instance that has handled a published event has made its
\* own primary-store write and its own index write for it, so that once all
\* NumInstances instances have handled it each store holds NumInstances
\* writes for the one event, not one.
C29_EveryInstanceWrites ==
    \A k \in DOMAIN pub :
        /\ OwnDone(k) =>
              /\ \E x \in db : x.task = k /\ x.row = pub[k].payload
              /\ \E d \in es : d.task = k /\ d.doc = pub[k].payload
        /\ PeerDone(k) =>
              /\ \E x \in db : x.task = PeerTask(k) /\ x.row = pub[k].payload
              /\ \E d \in es : d.task = PeerTask(k) /\ d.doc = pub[k].payload
        /\ (OwnDone(k) /\ PeerDone(k)) =>
              /\ Cardinality(WritesFor(db, k)) = NumInstances
              /\ Cardinality(WritesFor(es, k)) = NumInstances

C29_Witness ==
    /\ Len(pub) = 1 /\ OwnDone(1) /\ PeerDone(1)
    /\ handler[pub[1].payload.url].values = 1
    /\ Cardinality(db) = 2 /\ Cardinality(es) = 2
    /\ \A x \in db : x.row = pub[1].payload
    /\ \A d \in es : d.doc = pub[1].payload

-----------------------------------------------------------------------------
(* Claims about startup and shutdown (under SpecStartup, SpecShutdown) *)

\* C31 (as claimed): when the secondary index or the broadcast channel is not
\* configured, startup and every handled event proceed without an error state,
\* and every event is still emitted locally and written to the primary store
\* unless the store itself fails.
C31_NotConfiguredIsNoOp ==
    (~cfg.elastic \/ ~cfg.redis) =>
        /\ app.state # "failed"
        /\ ~cfg.redis => pub = <<>>
        /\ \A i \in DOMAIN sink :
              sink[i].pc = "done" => sink[i].save \in {"ok", "failed"}

\* onModuleDestroy has finished, by returning or by rejecting.
Destroyed == app.state = "closed"

\* C32 (as claimed): after onModuleDestroy has finished, normally or with an
\* error from closing the publisher, neither Redis connection remains open and
\* the receiver emits no further event on the local bus.
C32_BothClosedAfterDestroy ==
    /\ [](Destroyed => \A c \in Connections : conn[c].state = "end")
    /\ [][Destroyed => bus' = bus]_vars

-----------------------------------------------------------------------------
(* Claims about the configuration of the broadcaster (under SpecOptions) *)

\* The host gave LogModule.forRoot both a redis configuration and
\* broadcast = true.
BroadcastRequested ==
    /\ options.type = "object"
    /\ options.redis # Undefined
    /\ options.broadcast = JsTrue

\* C33: the broadcast channel is used only when LogModule.forRoot got both a
\* redis configuration and broadcast = true; in every other configuration
\* each value of a non-GET unit of work is emitted on the local bus and
\* nothing is published; and in no configuration has one unit of work both a
\* direct local emit and a publish.
C33_BroadcastOnlyWhenRequested ==
    /\ (pub # <<>> \/ channel # <<>> \/ peerChannel # <<>>) => BroadcastRequested
    /\ ~BroadcastRequested =>
          /\ pub = <<>>
          /\ \A u \in LogUnits :
                (lpc[u] # "new" /\ IsAudited(lreq[u].method)) =>
                    Cardinality(LocalEmits(u)) = handler[u].values
    /\ \A u \in LogUnits : LocalEmits(u) = {} \/ Publishes(u) = {}

\* A host passed a redis configuration without broadcast = true and a non-GET
\* unit of work produced a value: the event was emitted locally, not published.
C33_RedisWithoutBroadcast ==
    /\ options.type = "object"
    /\ options.redis # Undefined
    /\ options.broadcast # JsTrue
    /\ \E u \in LogUnits : LocalEmits(u) # {}

\* Messages the broker has accepted on the channel so far.
MessagesSent == { i \in DOMAIN pub : pub[i].state = "sent" }

\* Completed units of work with a non-GET verb.
QualifyingUnits ==
    { u \in LogUnits : /\ lpc[u] = "done" /\ handler[u].end = "complete"
                       /\ IsAudited(lreq[u].method) }

\* The instance has the broadcaster, every unit of work has completed and
\* every publish was accepted.
AllPublished ==
    /\ cfg.redis
    /\ \A u \in LogUnits : lpc[u] = "done" /\ handler[u].end = "complete"
    /\ \A i \in DOMAIN pub : pub[i].state = "sent"

\* The step emitted an event that came in through the receiver.
ReceiverEmitted ==
    /\ Len(bus') = Len(bus) + 1
    /\ bus'[Len(bus')].via = "receiver"

\* C34 (as claimed): an event that enters through the receiver is emitted on
\* the local bus and not published again, and the number of messages sent on
\* the channel equals the number of qualifying units of work.
C34_OneMessagePerUnit ==
    /\ [][ReceiverEmitted => pub' = pub]_vars
    /\ [](AllPublished => Cardinality(MessagesSent) = Cardinality(QualifyingUnits))

\* C34, the part about the receiver alone: an event emitted by the receiver is
\* not published, and the sink's work on it publishes nothing either.
C34_ReceivedNotRepublished ==
    [][(ReceiverEmitted \/ (sink' # sink /\ bus' = bus)) => pub' = pub]_vars

-----------------------------------------------------------------------------
(* Claims about the receiver (under SpecForeign) *)

\* Events the receiver emitted on the local bus.
ReceiverEmits == { k \in DOMAIN bus : bus[k].via = "receiver" }

\* Messages held for this instance's subscriber that JSON.parse accepts.
WellFormedQueued == { k \in DOMAIN channel : Parses(channel[k]) }

\* Nothing was emitted for a message that does not parse, none that parses
\* was lost, and no error left the message handler.
DroppedQuietly ==
    /\ app = Started
    /\ \A k \in DOMAIN bus :
          /\ bus[k].via = "receiver"
          /\ \E i \in MessagesSent : bus[k].payload = pub[i].payload
    /\ Cardinality(ReceiverEmits) + Cardinality(WellFormedQueued)
          = Cardinality(MessagesSent)

\* C35: a message on the channel that cannot be deserialized is dropped:
\* nothing is emitted on the local bus for it, no error escapes the receiver,
\* and every well-formed message sent on the channel, also one queued behind
\* it, is eventually emitted on the local bus.
C35_MalformedMessageDropped ==
    /\ []DroppedQuietly
    /\ \A i \in EventSlots :
          (i \in MessagesSent)
             ~> (/\ i \in DOMAIN pub
                 /\ \E k \in ReceiverEmits : bus[k].payload = pub[i].payload)

\* The peer still holds an undeserializable message followed by a well-formed
\* one; this instance has received both, dropped the first and emitted the
\* second.
C35_EmittedAfterMalformed ==
    /\ Len(peerChannel) = 2
    /\ ~Parses(peerChannel[1]) /\ Parses(peerChannel[2])
    /\ channel = <<>>
    /\ Len(bus) = 1
    /\ bus[1].via = "receiver"
    /\ bus[1].payload = Parse(peerChannel[2])
    /\ app = Started

-----------------------------------------------------------------------------
(* Claims about the handling of a delivered event (under SpecSink) *)

\* handleLogEvent has returned for event i: the row is stored or the save's
\* failure was logged, and the document is indexed, or the index call's
\* failure was logged, or there is no index to write to.
Handled(i) ==
    /\ i \in DOMAIN sink
    /\ sink[i].pc = "done"
    /\ \/ sink[i].save = "ok" /\ \E x \in db : x.task = i
       \/ sink[i].save = "failed" /\ ~\E x \in db : x.task = i
    /\ \/ sink[i].index = "ok" /\ \E d \in es : d.task = i
       \/ sink[i].index = "failed" /\ ~\E d \in es : d.task = i
       \/ sink[i].index = "skipped" /\ ~cfg.elastic

\* C36: every event delivered to InsertLogSniffer is eventually handled to
\* the end, each sink written or its failure logged, given that every call to
\* a sink eventually resolves or rejects; at no time has handleLogEvent ended
\* other than by returning, and the unit of work is not failed by it.
C36_EveryEventHandled ==
    /\ [](\A i \in DOMAIN sink :
             /\ sink[i].pc \in {"save", "index", "done"}
             /\ sink[i].pc = "done" => Handled(i))
    /\ [](\A u \in LogUnits : response[u].end # "error")
    /\ \A i \in EventSlots : (i \in DOMAIN sink) ~> Handled(i)

\* An event whose save and whose index call both rejected has been handled to
\* the end.
C36_BothSinksFailed ==
    \E i \in DOMAIN sink :
        /\ Handled(i)
        /\ sink[i].save = "failed"
        /\ sink[i].index = "failed"

-----------------------------------------------------------------------------
(* Claims about what the hooks leave alone (under SpecHook) *)

\* The two columns the subscriber writes.
AuditColumns == {"createdBy", "updatedBy"}

\* C37: a hook changes no field of the record other than createdBy and
\* updatedBy, and the record exposes the same fields after the hook as
\* before: neither column is added to a record that does not expose it.
C37_HookFrame ==
    HookRan =>
        /\ lastHook.after.hasEntity = lastHook.before.hasEntity
        /\ DOMAIN lastHook.after.entity = DOMAIN lastHook.before.entity
        /\ \A f \in DOMAIN lastHook.before.entity \ AuditColumns :
              lastHook.after.entity[f] = lastHook.before.entity[f]

\* beforeInsert ran with an actor on a record that exposes createdBy only:
\* createdBy was stamped, updatedBy was not added, the name is as it was.
C37_StampedCreatedByOnly ==
    /\ lastHook.op = "insert"
    /\ Truthy(lastHook.read)
    /\ lastHook.before.entity = [name |-> "n", createdBy |-> "Z"]
    /\ lastHook.after.entity = [name |-> "n", createdBy |-> lastHook.read]

-----------------------------------------------------------------------------
(* Claims about requests without an actor (under SpecAnonymous) *)

\* Unit r is a request for which no actor was resolved.
NoActor(r) == pc[r] = "handler" /\ ~Truthy(reqUser[r])

\* C38: in a unit of work with no resolved actor an ordinary write is left
\* unstamped by the hook, while the write of the unit's audit record runs in
\* a scope of its own whose userId is 'ANONYMOUS', which the hook takes for
\* an actor: it stamps 'ANONYMOUS' on an audit record that exposes createdBy
\* and updatedBy.
C38_AnonymousStampsAuditRecordOnly ==
    /\ (HookRan /\ NoActor(lastHook.unit)) =>
          lastHook.after = lastHook.before
    /\ \A r \in Units :
          (NoActor(r) /\ scoped[r].pc = "saving") =>
              /\ scoped[r].userId = ANONYMOUS
              /\ ScopedRead(r) = ANONYMOUS
              /\ ClsGet(r) # ANONYMOUS
    /\ (lastHook.op = "scopedInsert" /\ lastHook.before.entity.userId = ANONYMOUS) =>
          /\ lastHook.read = ANONYMOUS
          /\ \A f \in AuditColumns \cap DOMAIN lastHook.before.entity :
                lastHook.after.entity[f] = ANONYMOUS

\* The audit record of a request without a user exposes the two columns and
\* was stamped 'ANONYMOUS' while the request was still being handled.
C38_AuditRecordStampedAnonymous ==
    /\ lastHook.op = "scopedInsert"
    /\ NoActor(lastHook.unit)
    /\ reqUser[lastHook.unit] = Undefined
    /\ "createdBy" \in DOMAIN lastHook.before.entity
    /\ lastHook.after.entity.createdBy = ANONYMOUS
    /\ lastHook.after.entity.updatedBy = ANONYMOUS

-----------------------------------------------------------------------------
(* Claims about the two clock reads of the index step (under SpecReads) *)

\* C39 (as claimed): in every document of the secondary index the UTC
\* calendar date of the timestamp field equals the date in the name of the
\* destination the document was written to.
C39_TimestampDateIsDestinationDate ==
    \A x \in es : DatePart(x.timestamp) = x.index[2]

====
